---- MODULE Spec2Model ----
(***************************************************************************)
(* xgotop: the userspace event pipeline of cmd/xgotop/main.go (ringbuffer  *)
(* readers -> eventCh -> processor workers -> session store and hub), the  *)
(* two session-store encoders of cmd/xgotop/storage (events.pb and         *)
(* events.jsonl), and the session manager that creates, opens and deletes  *)
(* the session directories.                                                *)
(***************************************************************************)
EXTENDS Integers, Sequences, FiniteSets, TLC

(***************************************************************************)
(* Bounds of the model.                                                    *)
(***************************************************************************)
NReaders == 2
NProcs == 2
QueueCap == 1
BatchSize == 2
MaxRecords == 2
MaxFaults == 1
MaxStored == 2
MaxBatchLen == 2
MaxTimestamp == 2
MaxLimit == 1
MaxOffset == 1
MaxIoErrors == 1
MaxShortWrite == 1
PbBufSize == 24
JlBufSize == 12
MaxHandles == 2
MaxMgrEvents == 1
MaxSamples == 2
MaxCounted == 1
SubQueueCap == 2
MaxFrames == 4
MaxPairs == 2
NGoroutines == 1
MaxListed == 2
MaxFirings == 3
MaxSockets == 3
MaxThrows == 1

Readers == 1..NReaders
Procs == 1..NProcs

VARIABLES
    ring,            \* records in the kernel ringbuffer, not yet read
    fed,             \* number of records the probes have submitted
    malformed,       \* number of records fed that do not decode
    ringClosed,      \* rd.Close() has taken effect
    stopper,         \* the signal channel and its watcher goroutine
    pcReader,        \* position of each read worker
    held,            \* the event a read worker has decoded and not yet sent
    nRead,           \* events each read worker has decoded
    eventCh,         \* the buffered channel between the pools
    chClosed,        \* close(eventCh) has run
    readersStopped,  \* close(readersStopped) has run
    eventCount,      \* atomic depth counter (EWP)
    pcProc,          \* position of each process worker
    batch,           \* each process worker's batch buffer
    flushTimer,      \* each process worker's flush timer
    flushLog,        \* the WriteBatch calls made, in order
    hubFrames,       \* the frames handed to hub.Broadcast, in order
    writeErrors,     \* WriteBatch calls that returned an error
    pcMain,          \* position of main after the pools are spawned
    metricsWritten,  \* saveMetrics has written the metrics file
    sessionUpdated,  \* the deferred UpdateSession has run
    serverStopped,   \* the deferred apiServer.Stop has run
    storeClosed,     \* the deferred eventStore.Close has run
    metadata         \* metadata.json of the session, as each store kind leaves it

shutdownVars == <<metricsWritten, sessionUpdated, serverStopped, storeClosed,
                  metadata>>

VARIABLES
    pb,              \* the ProtobufStore: events.pb, its bufio.Writer, eventCount
    jl,              \* the JSONLStore: events.jsonl, its bufio.Writer, eventCount
    appended,        \* the events passed to WriteEvent and WriteBatch so far
    storePhase,      \* "writing", "closed" or "open" (reopened for reading)
    ioErrors,        \* file writes that have failed
    lastCall,        \* the last store call and what each store returned
    scanFilter,      \* the filter of the last ReadEvents
    pbScan,          \* what ProtobufStore.ReadEvents returned
    jlScan,          \* what JSONLStore.ReadEvents returned
    liveScan         \* what a reader got that opened events.pb during the writes

storeVars == <<pb, jl, appended, storePhase, ioErrors, lastCall, scanFilter,
               pbScan, jlScan, liveScan>>

pipeVars == <<ring, fed, malformed, ringClosed, stopper, pcReader,
              held, nRead, eventCh, chClosed, readersStopped, eventCount,
              pcProc, batch, flushTimer, flushLog, hubFrames, writeErrors,
              pcMain, shutdownVars>>

VARIABLES
    sessionDirs,     \* the session directories under the base directory
    mgrStores,       \* the stores CreateSession returned that are not closed
    created,         \* per session id, the store kind of the last CreateSession
    written,         \* per session id, the events appended to its directory
    mgrCall          \* the last call on the manager or on one of its stores

mgrVars == <<sessionDirs, mgrStores, created, written, mgrCall>>

VARIABLES
    atomics,           \* the atomic counters the workers and the sampler share
    eventCountsByType, \* the per-kind cumulative counters
    metQueued,         \* events counted by a reader and not yet by a processor
    metBatch,          \* events in the process worker's batch buffer
    metStopped,        \* close(readersStopped) has run
    metricSeries,      \* the sampled series metricRPS .. metricTimestamps
    heap,              \* the api.Metrics objects allocated so far
    srvMetrics,        \* Server.metrics: the object the server points at
    reqPtr,            \* the pointer a /api/metrics request has loaded
    response,          \* the last answer to /api/metrics
    metricsFile,       \* the file saveMetrics has written
    published,         \* the samples passed to UpdateMetrics so far
    failedFlushes,     \* flushes whose WriteBatch returned an error
    sinceSample,       \* what happened since the last sample
    lastInterval       \* sinceSample as it was at the last sample

metVars == <<atomics, eventCountsByType, metQueued, metBatch, metStopped,
             metricSeries, heap, srvMetrics, reqPtr, response, metricsFile,
             published, failedFlushes, sinceSample, lastInterval>>

VARIABLES
    dispatched,        \* the frames handed to Hub.Broadcast, in order
    subs               \* the subscribers of the hub

hubVars == <<dispatched, subs>>

VARIABLES
    samplingPairs,     \* the pairs the -sample flag was written from
    ratesStr,          \* the text of the -sample flag
    rateResult         \* what parseSamplingRates returned for it

flagVars == <<samplingPairs, ratesStr, rateResult>>

VARIABLES
    probePhase,              \* "loaded", then "attached"
    sampling_rates,          \* the map sampling_rates of the probes
    goroutines_in_creation,  \* the map of that name: g.id -> callerg.id
    goroutines_in_exit,      \* the map of that name: g.id -> exit time
    ringbuf,                 \* the events submitted to the ringbuffer
    firings                  \* the probe firings so far, with their inputs

probeVars == <<probePhase, sampling_rates, goroutines_in_creation,
               goroutines_in_exit, ringbuf, firings>>

VARIABLES
    durable            \* how much of events.pb and of events.jsonl is on disk

diskVars == <<durable>>

VARIABLES
    wbKind,            \* the encoder of the store the workers share
    wbW,               \* its bufio.Writer and file
    wbCount,           \* its eventCount
    wbMu,              \* the worker that holds s.mu, 0 when it is free
    wbCall,            \* each worker's WriteBatch call
    wbLog              \* the calls that returned: events and result

wbVars == <<wbKind, wbW, wbCount, wbMu, wbCall, wbLog>>

VARIABLES
    sockets,                \* the WebSockets the client has created
    ws,                     \* this.ws: an index of sockets, 0 for null
    reconnectAttempts,      \* this.reconnectAttempts
    isIntentionallyClosed,  \* this.isIntentionallyClosed
    callbacks,              \* the number of callbacks in this.callbacks
    timers,                 \* the reconnect timers that are pending
    mounted,                \* the App effect has run and was not cleaned up
    throws,                 \* how often new WebSocket has thrown
    deliveries              \* how often the last frame's event was delivered

clientVars == <<sockets, ws, reconnectAttempts, isIntentionallyClosed,
                callbacks, timers, mounted, throws, deliveries>>

vars == <<pipeVars, storeVars, mgrVars, metVars,
          hubVars, flagVars, probeVars, diskVars, wbVars, clientVars>>

\* what a step of the pipeline, a call of the store, a call of the
\* manager and a step of the metrics collector leave alone
outsidePipe == <<storeVars, mgrVars, metVars, hubVars, flagVars,
    probeVars, diskVars, wbVars, clientVars>>
outsideStore == <<pipeVars, mgrVars, metVars, hubVars, flagVars,
    probeVars, diskVars, wbVars, clientVars>>
outsideMgr == <<pipeVars, storeVars, metVars, hubVars, flagVars,
    probeVars, diskVars, wbVars, clientVars>>
outsideMet == <<pipeVars, storeVars, mgrVars, hubVars, flagVars,
    probeVars, diskVars, wbVars, clientVars>>
outsideHub == <<pipeVars, storeVars, mgrVars, metVars, flagVars,
    probeVars, diskVars, wbVars, clientVars>>
outsideFlag == <<pipeVars, storeVars, mgrVars, metVars, hubVars,
    probeVars, diskVars, wbVars, clientVars>>
outsideProbe == <<pipeVars, storeVars, mgrVars, metVars, hubVars,
    flagVars, diskVars, wbVars, clientVars>>
outsideDisk == <<pipeVars, storeVars, mgrVars, metVars,
    hubVars, flagVars, probeVars, wbVars, clientVars>>
outsideWb == <<pipeVars, storeVars, mgrVars, metVars,
    hubVars, flagVars, probeVars, diskVars, clientVars>>
outsideClient == <<pipeVars, storeVars, mgrVars, metVars,
    hubVars, flagVars, probeVars, diskVars, wbVars>>

NoEvent == [rw |-> 0, seq |-> 0]

\* the session main creates, saved by CreateSession: no end time, no events
NewSession == [EndTime |-> FALSE, EventCount |-> 0]

NewMetadata == [pb |-> NewSession, jl |-> NewSession]

PipeInit ==
    /\ ring = <<>>
    /\ fed = 0
    /\ malformed = 0
    /\ ringClosed = FALSE
    /\ stopper = "idle"
    /\ pcReader = [r \in Readers |-> "read"]
    /\ held = [r \in Readers |-> NoEvent]
    /\ nRead = [r \in Readers |-> 0]
    /\ eventCh = <<>>
    /\ chClosed = FALSE
    /\ readersStopped = FALSE
    /\ eventCount = 0
    /\ pcProc = [p \in Procs |-> "select"]
    /\ batch = [p \in Procs |-> <<>>]
    /\ flushTimer = [p \in Procs |-> "armed"]
    /\ flushLog = <<>>
    /\ hubFrames = <<>>
    /\ writeErrors = 0
    /\ pcMain = "readWgWait"
    /\ metricsWritten = FALSE
    /\ sessionUpdated = FALSE
    /\ serverStopped = FALSE
    /\ storeClosed = FALSE
    /\ metadata = NewMetadata

(***************************************************************************)
(* The kernel side: a probe submits one record to the ringbuffer.  A       *)
(* record whose sample does not decode makes binary.Read fail in reader(). *)
(* Records are submitted before the stop signal: to the read workers a     *)
(* record submitted later is the same as one submitted just before it and  *)
(* not yet read.                                                           *)
(***************************************************************************)
ProbeFire ==
    /\ fed < MaxRecords
    /\ stopper = "idle"
    /\ \E good \in BOOLEAN :
          /\ good \/ malformed + writeErrors < MaxFaults
          /\ ring' = Append(ring, [ok |-> good])
          /\ malformed' = IF good THEN malformed ELSE malformed + 1
    /\ fed' = fed + 1
    /\ UNCHANGED <<ringClosed, stopper, pcReader, held, nRead,
                   eventCh, chClosed, readersStopped, eventCount, pcProc,
                   batch, flushTimer, flushLog, hubFrames, writeErrors, pcMain, shutdownVars, outsidePipe>>

(***************************************************************************)
(* SIGINT/SIGTERM is delivered to the stopper channel; the watcher         *)
(* goroutine then closes the ringbuffer reader.                            *)
(***************************************************************************)
StopSignal ==
    /\ stopper = "idle"
    /\ pcMain = "readWgWait"
    /\ stopper' = "signalled"
    /\ UNCHANGED <<ring, fed, malformed, ringClosed, pcReader, held, nRead,
                   eventCh, chClosed, readersStopped, eventCount, pcProc,
                   batch, flushTimer, flushLog, hubFrames, writeErrors, pcMain, shutdownVars, outsidePipe>>

StopWatcher ==
    /\ stopper = "signalled"
    /\ ringClosed' = TRUE
    /\ stopper' = "closed"
    /\ UNCHANGED <<ring, fed, malformed, pcReader, held, nRead,
                   eventCh, chClosed, readersStopped, eventCount, pcProc,
                   batch, flushTimer, flushLog, hubFrames, writeErrors, pcMain, shutdownVars, outsidePipe>>

(***************************************************************************)
(* Read workers.                                                           *)
(***************************************************************************)
\* reader(rd) returns a decoded event
RWReadEvent(r) ==
    /\ pcReader[r] = "read"
    /\ ~ringClosed
    /\ ring # <<>>
    /\ Head(ring).ok
    /\ ring' = Tail(ring)
    /\ nRead' = [nRead EXCEPT ![r] = @ + 1]
    /\ held' = [held EXCEPT ![r] =
                  [rw |-> r, seq |-> nRead[r] + 1]]
    /\ pcReader' = [pcReader EXCEPT ![r] = "enqueue"]
    /\ UNCHANGED <<fed, malformed, ringClosed, stopper, eventCh,
                   chClosed, readersStopped, eventCount, pcProc, batch, flushTimer, flushLog, hubFrames, writeErrors, pcMain, shutdownVars, outsidePipe>>

\* reader(rd) returns a parse error: logged, the loop continues
RWReadError(r) ==
    /\ pcReader[r] = "read"
    /\ ~ringClosed
    /\ ring # <<>>
    /\ ~Head(ring).ok
    /\ ring' = Tail(ring)
    /\ UNCHANGED <<fed, malformed, ringClosed, stopper, pcReader,
                   held, nRead, eventCh, chClosed, readersStopped, eventCount,
                   pcProc, batch, flushTimer, flushLog, hubFrames, writeErrors,
                   pcMain, shutdownVars, outsidePipe>>

\* reader(rd) returns ringbuf.ErrClosed: the worker returns
RWRingClosed(r) ==
    /\ pcReader[r] = "read"
    /\ ringClosed
    /\ pcReader' = [pcReader EXCEPT ![r] = "done"]
    /\ UNCHANGED <<ring, fed, malformed, ringClosed, stopper, held,
                   nRead, eventCh, chClosed, readersStopped, eventCount,
                   pcProc, batch, flushTimer, flushLog, hubFrames, writeErrors,
                   pcMain, shutdownVars, outsidePipe>>

RWEnqueueNoBlock(r) ==
    /\ pcReader[r] = "enqueue"
    /\ eventCh' = Append(eventCh, held[r])
    /\ held' = [held EXCEPT ![r] = NoEvent]
    /\ pcReader' = [pcReader EXCEPT ![r] = "count"]
    /\ UNCHANGED <<ring, fed, malformed, ringClosed, stopper, nRead,
                   chClosed, readersStopped, eventCount, pcProc,
                   batch, flushTimer, flushLog, hubFrames, writeErrors, pcMain,
                   shutdownVars, outsidePipe>>

\* eventCh <- event: blocks while the channel buffer is full
RWEnqueue(r) ==
    /\ pcReader[r] = "enqueue"
    /\ Len(eventCh) < QueueCap
    /\ eventCh' = Append(eventCh, held[r])
    /\ held' = [held EXCEPT ![r] = NoEvent]
    /\ pcReader' = [pcReader EXCEPT ![r] = "count"]
    /\ UNCHANGED <<ring, fed, malformed, ringClosed, stopper, nRead,
                   chClosed, readersStopped, eventCount, pcProc, batch, flushTimer, flushLog, hubFrames, writeErrors, pcMain, shutdownVars, outsidePipe>>

\* eventCount.Add(1); readEventCount.Add(1)
RWCount(r) ==
    /\ pcReader[r] = "count"
    /\ eventCount' = eventCount + 1
    /\ pcReader' = [pcReader EXCEPT ![r] = "read"]
    /\ UNCHANGED <<ring, fed, malformed, ringClosed, stopper, held,
                   nRead, eventCh, chClosed, readersStopped, pcProc, batch, flushTimer, flushLog, hubFrames, writeErrors, pcMain, shutdownVars, outsidePipe>>

(***************************************************************************)
(* Process workers.  The batch and the flush timer belong to one worker,   *)
(* and WriteBatch runs under the store's mutex: a case of the select loop, *)
(* with the flushBatch call it makes, is one step.                         *)
(***************************************************************************)
BroadcastEach(frames, events) ==
    frames \o [i \in DOMAIN events |-> [type |-> "event", events |-> <<events[i]>>]]

\* Server.BroadcastBatch: one {"type": "batch", "events": ...} message to the hub
BroadcastBatch(frames, events) ==
    Append(frames, [type |-> "batch", events |-> events])

\* flushBatch on the batch b: nothing on an empty batch (the timer is not
\* reset); otherwise WriteBatch (which may return an error, only logged),
\* BroadcastBatch, clear the batch, flushTimer.Reset
flushBatch(p, b, timer) ==
    IF b = <<>>
      THEN /\ batch' = [batch EXCEPT ![p] = <<>>]
           /\ flushTimer' = timer
           /\ UNCHANGED <<flushLog, hubFrames, writeErrors>>
      ELSE /\ \E ok \in BOOLEAN :
                 /\ ok \/ malformed + writeErrors < MaxFaults
                 /\ flushLog' = Append(flushLog, [events |-> b, ok |-> ok])
                 /\ hubFrames' = BroadcastBatch(hubFrames, b)
                 /\ writeErrors' = IF ok THEN writeErrors
                                         ELSE writeErrors + 1
           /\ batch' = [batch EXCEPT ![p] = <<>>]
           /\ flushTimer' = [timer EXCEPT ![p] = "armed"]

PushBatchFront(b, e) == <<e>> \o b

\* batch = append(batch, storageEvent)
PushBatch(b, e) == Append(b, e)

TakeEventLate(p) ==
    /\ eventCh # <<>>
    /\ eventCh' = Tail(eventCh)
    /\ eventCount' = eventCount - 1
    /\ LET b == PushBatch(batch[p], Head(eventCh))
       IN IF Len(b) > BatchSize
            THEN flushBatch(p, b, flushTimer)
            ELSE /\ batch' = [batch EXCEPT ![p] = b]
                 /\ UNCHANGED <<flushTimer, flushLog, hubFrames, writeErrors>>

\* the body shared by both dequeue paths: count, convert, append, and
\* call flushBatch when len(batch) >= *batchSize
TakeEvent(p) ==
    /\ eventCh # <<>>
    /\ eventCh' = Tail(eventCh)
    /\ eventCount' = eventCount - 1
    /\ LET b == PushBatch(batch[p], Head(eventCh))
       IN IF Len(b) >= BatchSize
            THEN flushBatch(p, b, flushTimer)
            ELSE /\ batch' = [batch EXCEPT ![p] = b]
                 /\ UNCHANGED <<flushTimer, flushLog, hubFrames, writeErrors>>

\* case event, ok := <-eventCh with ok
PWDequeue(p) ==
    /\ pcProc[p] = "select"
    /\ TakeEvent(p)
    /\ UNCHANGED <<ring, fed, malformed, ringClosed, stopper,
                   pcReader, held, nRead, chClosed, readersStopped,
                   pcProc, pcMain, shutdownVars, outsidePipe>>

PWChannelClosedNoFlush(p) ==
    /\ pcProc[p] = "select"
    /\ eventCh = <<>>
    /\ chClosed
    /\ pcProc' = [pcProc EXCEPT ![p] = "done"]
    /\ UNCHANGED <<ring, fed, malformed, ringClosed, stopper,
                   pcReader, held, nRead, eventCh, chClosed, readersStopped,
                   eventCount, batch, flushTimer, flushLog, hubFrames,
                   writeErrors, pcMain, shutdownVars, outsidePipe>>

\* case event, ok := <-eventCh with !ok: flushBatch(); return
PWChannelClosed(p) ==
    /\ pcProc[p] = "select"
    /\ eventCh = <<>>
    /\ chClosed
    /\ flushBatch(p, batch[p], flushTimer)
    /\ pcProc' = [pcProc EXCEPT ![p] = "done"]
    /\ UNCHANGED <<ring, fed, malformed, ringClosed, stopper,
                   pcReader, held, nRead, eventCh, chClosed, readersStopped,
                   eventCount, pcMain, shutdownVars, outsidePipe>>

\* case <-flushTimer.C: the deadline has fired; flushBatch()
PWTimer(p) ==
    /\ pcProc[p] = "select"
    /\ flushTimer[p] = "armed"
    /\ flushBatch(p, batch[p], [flushTimer EXCEPT ![p] = "expired"])
    /\ UNCHANGED <<ring, fed, malformed, ringClosed, stopper,
                   pcReader, held, nRead, eventCh, chClosed, readersStopped,
                   eventCount, pcProc, pcMain, shutdownVars, outsidePipe>>

\* case <-readersStopped: start draining the channel
PWReadersStopped(p) ==
    /\ pcProc[p] = "select"
    /\ readersStopped
    /\ pcProc' = [pcProc EXCEPT ![p] = "drain"]
    /\ UNCHANGED <<ring, fed, malformed, ringClosed, stopper,
                   pcReader, held, nRead, eventCh, chClosed, readersStopped,
                   eventCount, batch, flushTimer, flushLog, hubFrames,
                   writeErrors, pcMain, shutdownVars, outsidePipe>>

\* for event := range eventCh: one iteration
PWDrainEvent(p) ==
    /\ pcProc[p] = "drain"
    /\ TakeEvent(p)
    /\ UNCHANGED <<ring, fed, malformed, ringClosed, stopper,
                   pcReader, held, nRead, chClosed, readersStopped,
                   pcProc, pcMain, shutdownVars, outsidePipe>>

\* the range loop ends on the closed, empty channel: flushBatch(); return
PWDrainEnd(p) ==
    /\ pcProc[p] = "drain"
    /\ eventCh = <<>>
    /\ chClosed
    /\ flushBatch(p, batch[p], flushTimer)
    /\ pcProc' = [pcProc EXCEPT ![p] = "done"]
    /\ UNCHANGED <<ring, fed, malformed, ringClosed, stopper,
                   pcReader, held, nRead, eventCh, chClosed, readersStopped,
                   eventCount, pcMain, shutdownVars, outsidePipe>>

(***************************************************************************)
(* main after the pools are spawned: join, close, save, then the deferred  *)
(* calls in reverse order of registration.                                 *)
(***************************************************************************)
AllReadersDone == \A r \in Readers : pcReader[r] = "done"
AllProcsDone == \A p \in Procs : pcProc[p] = "done"

MainStep(from, to) ==
    /\ pcMain = from
    /\ pcMain' = to
    /\ UNCHANGED <<ring, fed, malformed, ringClosed, stopper,
                   pcReader, held, nRead, eventCh, eventCount, pcProc,
                   batch, flushTimer, flushLog, hubFrames, writeErrors, outsidePipe>>

MainCloseReadersStoppedNoJoin ==
    /\ MainStep("readWgWait", "closeEventCh")
    /\ readersStopped' = TRUE
    /\ UNCHANGED <<chClosed, shutdownVars>>

\* readWg.Wait(); close(readersStopped)
MainCloseReadersStopped ==
    /\ AllReadersDone
    /\ MainStep("readWgWait", "closeEventCh")
    /\ readersStopped' = TRUE
    /\ UNCHANGED <<chClosed, shutdownVars>>

MainCloseEventChSkip ==
    /\ MainStep("closeEventCh", "processWgWait")
    /\ UNCHANGED <<chClosed, readersStopped, shutdownVars>>

\* close(eventCh)
MainCloseEventCh ==
    /\ MainStep("closeEventCh", "processWgWait")
    /\ chClosed' = TRUE
    /\ UNCHANGED <<readersStopped, shutdownVars>>

MainSaveMetricsNoJoin ==
    /\ MainStep("processWgWait", "metricsSaved")
    /\ metricsWritten' = TRUE
    /\ UNCHANGED <<readersStopped, chClosed, sessionUpdated, serverStopped,
                   storeClosed, metadata>>

\* processWg.Wait(); saveMetrics(...)
MainSaveMetrics ==
    /\ AllProcsDone
    /\ MainStep("processWgWait", "metricsSaved")
    /\ metricsWritten' = TRUE
    /\ UNCHANGED <<readersStopped, chClosed, sessionUpdated, serverStopped,
                   storeClosed, metadata>>

RECURSIVE StoredFrom(_)
\* the events of the batches WriteBatch accepted, in store order
StoredFrom(log) ==
    IF log = <<>> THEN <<>>
    ELSE (IF Head(log).ok THEN Head(log).events ELSE <<>>)
         \o StoredFrom(Tail(log))

StoredEvents == StoredFrom(flushLog)

\* ProtobufStore.GetSession: a copy of the session with the store's eventCount,
\* which WriteBatch raises by the batch when it succeeds
PbGetSession(session, count) == [session EXCEPT !.EventCount = count]

\* JSONLStore.GetSession: the session the store was created with
JlGetSession(session) == session

\* session.EndTime = &endTime; session.EventCount = GetSession().EventCount
EndSession(session, got) ==
    [session EXCEPT !.EndTime = TRUE, !.EventCount = got.EventCount]

\* deferred, registered last: eventStore.UpdateSession(session), which saves
\* the session to metadata.json
MainUpdateSession ==
    /\ MainStep("metricsSaved", "sessionUpdated")
    /\ sessionUpdated' = TRUE
    /\ metadata' =
          [pb |-> EndSession(metadata.pb,
                             PbGetSession(metadata.pb, Len(StoredEvents))),
           jl |-> EndSession(metadata.jl, JlGetSession(metadata.jl))]
    /\ UNCHANGED <<readersStopped, chClosed, metricsWritten, serverStopped,
                   storeClosed>>

\* deferred: apiServer.Stop(ctx)
MainStopServer ==
    /\ MainStep("sessionUpdated", "serverStopped")
    /\ serverStopped' = TRUE
    /\ UNCHANGED <<readersStopped, chClosed, metricsWritten, sessionUpdated,
                   storeClosed, metadata>>

\* deferred, registered first: eventStore.Close(); main returns
MainCloseStore ==
    /\ MainStep("serverStopped", "Stopped")
    /\ storeClosed' = TRUE
    /\ UNCHANGED <<readersStopped, chClosed, metricsWritten, sessionUpdated,
                   serverStopped, metadata>>

ReaderStep(r) ==
    \/ RWReadEvent(r)
    \/ RWReadError(r)
    \/ RWRingClosed(r)
    \/ RWEnqueue(r)
    \/ RWCount(r)

ProcStep(p) ==
    \/ PWDequeue(p)
    \/ PWChannelClosed(p)
    \/ PWTimer(p)
    \/ PWReadersStopped(p)
    \/ PWDrainEvent(p)
    \/ PWDrainEnd(p)

MainNext ==
    \/ MainCloseReadersStopped
    \/ MainCloseEventCh
    \/ MainSaveMetrics
    \/ MainUpdateSession
    \/ MainStopServer
    \/ MainCloseStore

PipeNext ==
    \/ ProbeFire
    \/ StopSignal
    \/ StopWatcher
    \/ \E r \in Readers : ReaderStep(r)
    \/ \E p \in Procs : ProcStep(p)
    \/ MainNext

(***************************************************************************)
(* The session store (package storage).  A file is a sequence of tokens:   *)
(* events.pb holds numbers (length words, field tags, values), events.jsonl *)
(* holds <<name, value>> members and line ends.                            *)
(***************************************************************************)
\* the batch marker 0xFFFFFFFF is the largest length word; the model takes
\* the largest 32-bit integer TLC handles
BatchMarker == 2147483647
NilPtr == -1

Min(a, b) == IF a < b THEN a ELSE b
Take(s, n) == SubSeq(s, 1, n)
Drop(s, n) == SubSeq(s, n + 1, Len(s))

\* the goroutine ids of the events; the stores only compare them for equality
Goroutines == {1, 2}

\* the events the model appends: every timestamp with every goroutine id,
\* every timestamp and every goroutine id with both event types, the zero
\* and the non-zero values of the parent and of the attributes
Events == { [Timestamp |-> t, EventType |-> (t + g) % 2, Goroutine |-> g,
             ParentGoroutine |-> g - 1, Attributes |-> <<t, 0, 0, 0, g>>] :
            t \in 1..MaxTimestamp, g \in Goroutines }

\* the batches of at most room events
Batches(room) ==
    UNION { [1..n -> Events] : n \in 1..Min(MaxBatchLen, room) }

\* the EventFilter values the model scans with; NoFilter is the nil filter
NoFilter == [nil |-> TRUE, Goroutine |-> NilPtr, EventType |-> NilPtr,
             StartTime |-> NilPtr, EndTime |-> NilPtr, Limit |-> 0,
             Offset |-> 0]

Filters == {NoFilter} \cup
           [nil : {FALSE}, Goroutine : {NilPtr, 2}, EventType : {NilPtr, 1},
            StartTime : {NilPtr, 2}, EndTime : {NilPtr, MaxTimestamp - 1},
            Limit : 0..MaxLimit, Offset : 0..MaxOffset]

(***************************************************************************)
(* bufio.Writer over an os.File.  A writer value w holds the file, the     *)
(* buffer, the sticky error, and the fault of this call: the faultAt-th    *)
(* write to the file fails after faultN tokens.                            *)
(***************************************************************************)
\* os.File.Write(p) under the writer
FileWrite(w, p) ==
    IF w.faultAt = 1
      THEN LET n == Min(w.faultN, Len(p) - 1)
           IN [w EXCEPT !.file = @ \o Take(p, n), !.err = TRUE,
                        !.faultAt = 0, !.wrote = n]
      ELSE [w EXCEPT !.file = @ \o p, !.wrote = Len(p),
                     !.faultAt = IF @ > 0 THEN @ - 1 ELSE 0]

\* (*bufio.Writer).Flush
BufFlush(w) ==
    IF w.err \/ w.buf = <<>> THEN w
    ELSE LET f == FileWrite([w EXCEPT !.buf = <<>>], w.buf)
         IN IF f.err THEN [f EXCEPT !.buf = Drop(w.buf, f.wrote)]
                     ELSE f

RECURSIVE BufWrite(_, _)
\* (*bufio.Writer).Write(p)
BufWrite(w, p) ==
    IF Len(p) > w.size - Len(w.buf) /\ ~w.err
      THEN IF w.buf = <<>>
             THEN LET f == FileWrite(w, p)
                  IN BufWrite(f, Drop(p, f.wrote))
             ELSE LET n == w.size - Len(w.buf)
                  IN BufWrite(BufFlush([w EXCEPT !.buf = @ \o Take(p, n)]),
                              Drop(p, n))
      ELSE IF w.err THEN w
           ELSE [w EXCEPT !.buf = @ \o p]

\* (*bufio.Writer).WriteByte(c)
BufWriteByte(w, c) ==
    IF w.err THEN w
    ELSE LET f == IF w.size - Len(w.buf) <= 0 THEN BufFlush(w) ELSE w
         IN IF f.err THEN f ELSE [f EXCEPT !.buf = @ \o <<c>>]

\* the writer of a store value st for one call with the given fault
Writer(st, size, at, n) ==
    [file |-> st.file, buf |-> st.buf, err |-> st.err, size |-> size,
     faultAt |-> at, faultN |-> n, wrote |-> 0]

\* the store value after a call: ret is the error the call returned
Store(w, count, ret) ==
    [file |-> w.file, buf |-> w.buf, err |-> w.err, count |-> count,
     ret |-> ret]

(***************************************************************************)
(* ProtobufStore: proto.Marshal and proto.Unmarshal of RuntimeEvent and of *)
(* RuntimeEventBatch.  A scalar field that is 0 is not on the wire; the    *)
(* attributes are one packed field.                                        *)
(***************************************************************************)
ProtoField(tag, v) == IF v = 0 THEN <<>> ELSE <<tag, v>>

\* proto.Marshal(&RuntimeEvent{...})
MarshalEvent(e) ==
    ProtoField(1, e.Timestamp) \o ProtoField(2, e.EventType)
    \o ProtoField(3, e.Goroutine) \o ProtoField(4, e.ParentGoroutine)
    \o (IF e.Attributes = <<>> THEN <<>>
        ELSE <<5, Len(e.Attributes)>> \o e.Attributes)

RECURSIVE MarshalBatch(_)
\* proto.Marshal(&RuntimeEventBatch{Events: ...})
MarshalBatch(events) ==
    IF events = <<>> THEN <<>>
    ELSE LET d == MarshalEvent(Head(events))
         IN <<1, Len(d)>> \o d \o MarshalBatch(Tail(events))

ZeroRuntimeEvent == [Timestamp |-> 0, EventType |-> 0, Goroutine |-> 0,
                     ParentGoroutine |-> 0, Attributes |-> <<>>]

UnmarshalError == [ok |-> FALSE, event |-> ZeroRuntimeEvent]

RECURSIVE UnmarshalFields(_, _)
UnmarshalFields(d, ev) ==
    IF d = <<>> THEN [ok |-> TRUE, event |-> ev]
    ELSE IF Len(d) < 2 THEN UnmarshalError
    ELSE IF d[1] = 1 THEN UnmarshalFields(Drop(d, 2), [ev EXCEPT !.Timestamp = d[2]])
    ELSE IF d[1] = 2 THEN UnmarshalFields(Drop(d, 2), [ev EXCEPT !.EventType = d[2]])
    ELSE IF d[1] = 3 THEN UnmarshalFields(Drop(d, 2), [ev EXCEPT !.Goroutine = d[2]])
    ELSE IF d[1] = 4 THEN UnmarshalFields(Drop(d, 2), [ev EXCEPT !.ParentGoroutine = d[2]])
    ELSE IF d[1] = 5 /\ d[2] >= 0 /\ Len(d) >= 2 + d[2]
           THEN UnmarshalFields(Drop(d, 2 + d[2]),
                    [ev EXCEPT !.Attributes = @ \o SubSeq(d, 3, 2 + d[2])])
    ELSE UnmarshalError

\* proto.Unmarshal(data, &RuntimeEvent{})
UnmarshalEvent(d) == UnmarshalFields(d, ZeroRuntimeEvent)

RECURSIVE UnmarshalBatch(_)
\* proto.Unmarshal(data, &RuntimeEventBatch{})
UnmarshalBatch(d) ==
    IF d = <<>> THEN [ok |-> TRUE, events |-> <<>>]
    ELSE IF Len(d) < 2 \/ d[1] # 1 THEN [ok |-> FALSE, events |-> <<>>]
    ELSE IF d[2] < 0 \/ Len(d) < 2 + d[2] THEN [ok |-> FALSE, events |-> <<>>]
    ELSE LET e == UnmarshalEvent(SubSeq(d, 3, 2 + d[2]))
             rest == UnmarshalBatch(Drop(d, 2 + d[2]))
         IN IF e.ok /\ rest.ok
              THEN [ok |-> TRUE, events |-> <<e.event>> \o rest.events]
              ELSE [ok |-> FALSE, events |-> <<>>]

\* convertFromProto: the attributes are copied into the [5]uint64 array
convertFromProto(pbEvent) ==
    [Timestamp |-> pbEvent.Timestamp, EventType |-> pbEvent.EventType,
     Goroutine |-> pbEvent.Goroutine,
     ParentGoroutine |-> pbEvent.ParentGoroutine,
     Attributes |-> [i \in 1..5 |->
                       IF i <= Len(pbEvent.Attributes)
                         THEN pbEvent.Attributes[i] ELSE 0]]

\* ProtobufStore.WriteEvent: length word and data into the buffer, no flush
PbWriteEvent(st, e, at, n) ==
    LET data == MarshalEvent(e)
        w1 == BufWrite(Writer(st, PbBufSize, at, n), <<Len(data)>>)
        w2 == BufWrite(w1, data)
    IN IF w1.err THEN Store(w1, st.count, TRUE)
       ELSE IF w2.err THEN Store(w2, st.count, TRUE)
       ELSE Store(w2, st.count + 1, FALSE)

\* ProtobufStore.WriteBatch: marker, length word, data, Flush, then count
PbWriteBatch(st, events, at, n) ==
    LET data == MarshalBatch(events)
        w1 == BufWrite(Writer(st, PbBufSize, at, n), <<BatchMarker>>)
        w2 == BufWrite(w1, <<Len(data)>>)
        w3 == BufWrite(w2, data)
        w4 == BufFlush(w3)
    IN IF w1.err THEN Store(w1, st.count, TRUE)
       ELSE IF w2.err THEN Store(w2, st.count, TRUE)
       ELSE IF w3.err THEN Store(w3, st.count, TRUE)
       ELSE IF w4.err THEN Store(w4, st.count, TRUE)
       ELSE Store(w4, st.count + Len(events), FALSE)

PbCloseNoFlush(st, at, n) ==
    Store(Writer(st, PbBufSize, at, n), st.count, FALSE)

\* ProtobufStore.Close: Flush, then close the file
PbClose(st, at, n) ==
    LET w == BufFlush(Writer(st, PbBufSize, at, n))
    IN Store(w, st.count, w.err)

\* shouldIncludeEvent
shouldIncludeEvent(pbEvent, filter, offset, currentCount) ==
    IF filter.nil THEN TRUE
    ELSE IF filter.Offset > 0 /\ offset < filter.Offset THEN FALSE
    ELSE IF filter.Goroutine # NilPtr /\ pbEvent.Goroutine # filter.Goroutine
           THEN FALSE
    ELSE IF filter.EventType # NilPtr /\ pbEvent.EventType # filter.EventType
           THEN FALSE
    ELSE IF filter.StartTime # NilPtr /\ pbEvent.Timestamp < filter.StartTime
           THEN FALSE
    ELSE IF filter.EndTime # NilPtr /\ pbEvent.Timestamp > filter.EndTime
           THEN FALSE
    ELSE TRUE

ScanError == [events |-> <<>>, err |-> TRUE]

LimitReachedLate(filter, n) == ~filter.nil /\ filter.Limit > 0 /\ n > filter.Limit

\* filter != nil && filter.Limit > 0 && len(events) >= filter.Limit
LimitReached(filter, n) == ~filter.nil /\ filter.Limit > 0 /\ n >= filter.Limit

RECURSIVE PbScanBatch(_, _, _, _)
\* the loop over batch.Events in ReadEvents
PbScanBatch(pbEvents, events, offset, filter) ==
    IF pbEvents = <<>>
      THEN [events |-> events, offset |-> offset, done |-> FALSE]
      ELSE LET ev == IF shouldIncludeEvent(Head(pbEvents), filter, offset,
                                           Len(events))
                       THEN Append(events, convertFromProto(Head(pbEvents)))
                       ELSE events
           IN IF LimitReached(filter, Len(ev))
                THEN [events |-> ev, offset |-> offset + 1, done |-> TRUE]
                ELSE PbScanBatch(Tail(pbEvents), ev, offset + 1, filter)

RECURSIVE PbScanFrames(_, _, _, _)
\* the frame loop of ProtobufStore.ReadEvents
PbScanFrames(rest, events, offset, filter) ==
    IF rest = <<>> THEN [events |-> events, err |-> FALSE]
    ELSE IF rest[1] = BatchMarker
      THEN IF Len(rest) < 2 THEN ScanError
           ELSE IF Len(rest) < 2 + rest[2] THEN ScanError
           ELSE LET b == UnmarshalBatch(SubSeq(rest, 3, 2 + rest[2]))
                    r == PbScanBatch(b.events, events, offset, filter)
                IN IF ~b.ok THEN ScanError
                   ELSE IF r.done THEN [events |-> r.events, err |-> FALSE]
                   ELSE PbScanFrames(Drop(rest, 2 + rest[2]), r.events,
                                     r.offset, filter)
      ELSE IF Len(rest) < 1 + rest[1] THEN ScanError
           ELSE LET e == UnmarshalEvent(SubSeq(rest, 2, 1 + rest[1]))
                    ev == IF shouldIncludeEvent(e.event, filter, offset,
                                                Len(events))
                            THEN Append(events, convertFromProto(e.event))
                            ELSE events
                IN IF ~e.ok THEN ScanError
                   ELSE IF LimitReached(filter, Len(ev))
                          THEN [events |-> ev, err |-> FALSE]
                   ELSE PbScanFrames(Drop(rest, 1 + rest[1]), ev, offset + 1,
                                     filter)

\* ProtobufStore.ReadEvents: reads events.pb through its own handle
PbReadEvents(file, filter) == PbScanFrames(file, <<>>, 0, filter)

RECURSIVE countFrames(_)
countFrames(rest) ==
    IF rest = <<>> THEN 0
    ELSE IF rest[1] = BatchMarker
      THEN IF Len(rest) < 2 \/ Len(rest) < 2 + rest[2] THEN -1
           ELSE LET c == countFrames(Drop(rest, 2 + rest[2]))
                IN IF c < 0 THEN -1 ELSE 1 + c
      ELSE IF Len(rest) < 1 + rest[1] THEN -1
           ELSE LET c == countFrames(Drop(rest, 1 + rest[1]))
                IN IF c < 0 THEN -1 ELSE 1 + c

RECURSIVE countProtobufEvents(_)
\* countProtobufEvents: -1 stands for the error return
countProtobufEvents(rest) ==
    IF rest = <<>> THEN 0
    ELSE IF rest[1] = BatchMarker
      THEN IF Len(rest) < 2 \/ Len(rest) < 2 + rest[2] THEN -1
           ELSE LET b == UnmarshalBatch(SubSeq(rest, 3, 2 + rest[2]))
                    c == countProtobufEvents(Drop(rest, 2 + rest[2]))
                IN IF ~b.ok \/ c < 0 THEN -1 ELSE Len(b.events) + c
      ELSE IF Len(rest) < 1 + rest[1] THEN -1
           ELSE LET c == countProtobufEvents(Drop(rest, 1 + rest[1]))
                IN IF c < 0 THEN -1 ELSE 1 + c

(***************************************************************************)
(* JSONLStore: json.Marshal writes the five members of Event in field      *)
(* order; json.Unmarshal needs a complete object and reads the members by  *)
(* name.                                                                   *)
(***************************************************************************)
NewLine == <<"\n", 0>>

JsonNames == <<"timestamp", "event_type", "goroutine", "parent_goroutine",
               "attributes", "attributes", "attributes", "attributes",
               "attributes">>

\* json.Marshal(event)
MarshalJSON(e) ==
    << <<"timestamp", e.Timestamp>>, <<"event_type", e.EventType>>,
       <<"goroutine", e.Goroutine>>,
       <<"parent_goroutine", e.ParentGoroutine>> >>
    \o [i \in 1..5 |-> <<"attributes", e.Attributes[i]>>]

JsonMember(line, name) ==
    line[CHOOSE i \in DOMAIN line : line[i][1] = name][2]

\* json.Unmarshal(scanner.Bytes(), &event)
UnmarshalJSON(line) ==
    IF Len(line) = Len(JsonNames)
       /\ \A i \in DOMAIN line : line[i][1] = JsonNames[i]
      THEN [ok |-> TRUE,
            event |-> [Timestamp |-> JsonMember(line, "timestamp"),
                       EventType |-> JsonMember(line, "event_type"),
                       Goroutine |-> JsonMember(line, "goroutine"),
                       ParentGoroutine |-> JsonMember(line, "parent_goroutine"),
                       Attributes |-> [i \in 1..5 |-> line[4 + i][2]]]]
      ELSE [ok |-> FALSE, event |-> ZeroRuntimeEvent]

\* JSONLStore.WriteEvent: data, '\n', Flush, then count
JlWriteEvent(st, e, at, n) ==
    LET w1 == BufWrite(Writer(st, JlBufSize, at, n), MarshalJSON(e))
        w2 == BufWriteByte(w1, NewLine)
        w3 == BufFlush(w2)
    IN IF w1.err THEN Store(w1, st.count, TRUE)
       ELSE IF w2.err THEN Store(w2, st.count, TRUE)
       ELSE IF w3.err THEN Store(w3, st.count, TRUE)
       ELSE Store(w3, st.count + 1, FALSE)

RECURSIVE JlWriteLines(_, _, _)
\* the loop of JSONLStore.WriteBatch: each event is counted as it is written
JlWriteLines(w, count, events) ==
    IF events = <<>> THEN [w |-> w, count |-> count]
    ELSE LET w1 == BufWrite(w, MarshalJSON(Head(events)))
             w2 == BufWriteByte(w1, NewLine)
         IN IF w1.err THEN [w |-> w1, count |-> count]
            ELSE IF w2.err THEN [w |-> w2, count |-> count]
            ELSE JlWriteLines(w2, count + 1, Tail(events))

\* JSONLStore.WriteBatch: the loop, then Flush
JlWriteBatch(st, events, at, n) ==
    LET r == JlWriteLines(Writer(st, JlBufSize, at, n), st.count, events)
        w == BufFlush(r.w)
    IN IF r.w.err THEN Store(r.w, r.count, TRUE)
       ELSE Store(w, r.count, w.err)

\* JSONLStore.Close: Flush, then close the file
JlClose(st, at, n) ==
    LET w == BufFlush(Writer(st, JlBufSize, at, n))
    IN Store(w, st.count, w.err)

RECURSIVE JlLines(_, _)
\* bufio.Scanner with ScanLines: the lines of the file, the last one also
\* when it has no line end
JlLines(rest, line) ==
    IF rest = <<>> THEN (IF line = <<>> THEN <<>> ELSE <<line>>)
    ELSE IF Head(rest) = NewLine THEN <<line>> \o JlLines(Tail(rest), <<>>)
    ELSE JlLines(Tail(rest), Append(line, Head(rest)))

\* the filters of JSONLStore.ReadEvents, the offset excluded
JlMatches(event, filter) ==
    IF filter.nil THEN TRUE
    ELSE IF filter.Goroutine # NilPtr /\ event.Goroutine # filter.Goroutine
           THEN FALSE
    ELSE IF filter.EventType # NilPtr /\ event.EventType # filter.EventType
           THEN FALSE
    ELSE IF filter.StartTime # NilPtr /\ event.Timestamp < filter.StartTime
           THEN FALSE
    ELSE IF filter.EndTime # NilPtr /\ event.Timestamp > filter.EndTime
           THEN FALSE
    ELSE TRUE

RECURSIVE JlScanLines(_, _, _, _)
\* the scanner loop of JSONLStore.ReadEvents
JlScanLines(lines, events, skipped, filter) ==
    IF lines = <<>> THEN [events |-> events, err |-> FALSE]
    ELSE LET e == UnmarshalJSON(Head(lines))
         IN IF ~e.ok THEN ScanError
            ELSE IF ~JlMatches(e.event, filter)
                   THEN JlScanLines(Tail(lines), events, skipped, filter)
            ELSE IF ~filter.nil /\ filter.Offset > 0 /\ skipped < filter.Offset
                   THEN JlScanLines(Tail(lines), events, skipped + 1, filter)
            ELSE IF LimitReached(filter, Len(events) + 1)
                   THEN [events |-> Append(events, e.event), err |-> FALSE]
            ELSE JlScanLines(Tail(lines), Append(events, e.event), skipped,
                             filter)

\* JSONLStore.ReadEvents on a store opened by OpenJSONLStore
JlReadEvents(file, filter) == JlScanLines(JlLines(file, <<>>), <<>>, 0, filter)

(***************************************************************************)
(* The store calls.  The same calls are made on a ProtobufStore and on a   *)
(* JSONLStore; a file write of either may fail.                            *)
(***************************************************************************)
NewStore == [file |-> <<>>, buf |-> <<>>, err |-> FALSE, count |-> 0,
             ret |-> FALSE]

NoScan == [events |-> <<>>, err |-> FALSE]

NoCall == [op |-> "none", events |-> <<>>]

StoreInit ==
    /\ pb = NewStore
    /\ jl = NewStore
    /\ appended = <<>>
    /\ storePhase = "writing"
    /\ ioErrors = 0
    /\ lastCall = NoCall
    /\ scanFilter = NoFilter
    /\ pbScan = NoScan
    /\ jlScan = NoScan
    /\ liveScan = [done |-> FALSE]

\* the faults a call may meet: none, or one failing file write in one store
Faults ==
    {[pbAt |-> 0, jlAt |-> 0, n |-> 0]} \cup
    { f \in [pbAt : 0..2, jlAt : 0..2, n : 0..MaxShortWrite] :
         /\ ioErrors < MaxIoErrors
         /\ (f.pbAt = 0) # (f.jlAt = 0) }

\* a write call on both stores
StoreCall(op, events, pbNew, jlNew) ==
    /\ pb' = pbNew
    /\ jl' = jlNew
    /\ ioErrors' = ioErrors + (IF pbNew.err /\ ~pb.err THEN 1 ELSE 0)
                            + (IF jlNew.err /\ ~jl.err THEN 1 ELSE 0)
    /\ lastCall' = [op |-> op, events |-> events]
    /\ scanFilter' = NoFilter
    /\ pbScan' = NoScan
    /\ jlScan' = NoScan
    /\ UNCHANGED outsideStore

\* WriteEvent(event) on both stores
StoreWriteEvent ==
    /\ storePhase = "writing"
    /\ Len(appended) < MaxStored
    /\ \E e \in Events : \E f \in Faults :
          /\ StoreCall("WriteEvent", <<e>>,
                       PbWriteEvent(pb, e, f.pbAt, f.n),
                       JlWriteEvent(jl, e, f.jlAt, f.n))
          /\ appended' = Append(appended, e)
    /\ liveScan' = [done |-> FALSE]
    /\ UNCHANGED storePhase

\* WriteBatch(events) on both stores
StoreWriteBatch ==
    /\ storePhase = "writing"
    /\ \E events \in Batches(MaxStored - Len(appended)) : \E f \in Faults :
          /\ StoreCall("WriteBatch", events,
                       PbWriteBatch(pb, events, f.pbAt, f.n),
                       JlWriteBatch(jl, events, f.jlAt, f.n))
          /\ appended' = appended \o events
    /\ liveScan' = [done |-> FALSE]
    /\ UNCHANGED storePhase

\* the content of events.pb after each write to the bufio.Writer that
\* ProtobufStore.WriteBatch makes, the final Flush included
PbBatchFiles(st, events, at, n) ==
    LET data == MarshalBatch(events)
        w1 == BufWrite(Writer(st, PbBufSize, at, n), <<BatchMarker>>)
        w2 == BufWrite(w1, <<Len(data)>>)
        w3 == BufWrite(w2, data)
        w4 == BufFlush(w3)
    IN {w1.file, w2.file, w3.file, w4.file}

\* a reader with its own handle, as getEvents makes one: OpenProtobufStore
\* counts the events of the file, then ReadEvents scans it with no filter
LiveRead(file) ==
    LET c == countProtobufEvents(file)
        r == PbReadEvents(file, NoFilter)
    IN IF c < 0
         THEN [done |-> TRUE, status |-> 404, events |-> <<>>]
         ELSE IF r.err
                THEN [done |-> TRUE, status |-> 500, events |-> <<>>]
                ELSE [done |-> TRUE, status |-> 200, events |-> r.events]

\* a GET of the events between two calls of the writer
StoreLiveRead ==
    /\ storePhase = "writing"
    /\ lastCall.op # "none"
    /\ liveScan' = LiveRead(pb.file)
    /\ UNCHANGED <<pb, jl, appended, storePhase, ioErrors, lastCall,
                   scanFilter, pbScan, jlScan, outsideStore>>

\* WriteBatch(events) on both stores while a GET of the events opens and
\* scans events.pb after one of the writes of the call
StoreWriteBatchLive ==
    /\ storePhase = "writing"
    /\ \E events \in Batches(MaxStored - Len(appended)) : \E f \in Faults :
          /\ StoreCall("WriteBatch", events,
                       PbWriteBatch(pb, events, f.pbAt, f.n),
                       JlWriteBatch(jl, events, f.jlAt, f.n))
          /\ appended' = appended \o events
          /\ \E file \in PbBatchFiles(pb, events, f.pbAt, f.n) :
                liveScan' = LiveRead(file)
    /\ UNCHANGED storePhase

\* Close() on both stores
StoreClose ==
    /\ storePhase = "writing"
    /\ \E f \in Faults :
          StoreCall("Close", <<>>, PbClose(pb, f.pbAt, f.n),
                    JlClose(jl, f.jlAt, f.n))
    /\ storePhase' = "closed"
    /\ liveScan' = [done |-> FALSE]
    /\ UNCHANGED appended

\* OpenProtobufStore and OpenJSONLStore on the closed session: the protobuf
\* store counts the events of the file, the JSONL store starts at zero
StoreOpen ==
    /\ storePhase = "closed"
    /\ LET c == countProtobufEvents(pb.file)
       IN pb' = [pb EXCEPT !.count = IF c < 0 THEN 0 ELSE c,
                           !.ret = c < 0, !.buf = <<>>, !.err = FALSE]
    /\ jl' = [jl EXCEPT !.count = 0, !.ret = FALSE, !.buf = <<>>,
                        !.err = FALSE]
    /\ storePhase' = "open"
    /\ lastCall' = [op |-> "Open", events |-> <<>>]
    /\ UNCHANGED <<appended, ioErrors, scanFilter, pbScan, jlScan, liveScan,
                   outsideStore>>

\* ReadEvents(ctx, filter) on both reopened stores; a second scan of the
\* same files would return what the first one does.  Files that met a
\* failed write are scanned with the nil filter.
StoreReadEvents ==
    /\ storePhase = "open"
    /\ lastCall.op = "Open"
    /\ \E filter \in Filters :
          /\ ioErrors = 0 \/ filter = NoFilter
          /\ scanFilter' = filter
          /\ pbScan' = PbReadEvents(pb.file, filter)
          /\ jlScan' = JlReadEvents(jl.file, filter)
    /\ lastCall' = [op |-> "ReadEvents", events |-> <<>>]
    /\ UNCHANGED <<pb, jl, appended, storePhase, ioErrors, liveScan,
                   outsideStore>>

StoreNext ==
    \/ StoreWriteEvent
    \/ StoreWriteBatch
    \/ StoreLiveRead
    \/ StoreWriteBatchLive
    \/ StoreClose
    \/ StoreOpen
    \/ StoreReadEvents

(***************************************************************************)
(* The session manager of storage/manager.go.  A session directory holds   *)
(* the names of its files and the content of events.pb and events.jsonl;   *)
(* no call to the file system fails.                                       *)
(***************************************************************************)
SessionIds == {"s1"}

\* the format names CreateSession is called with
FormatNames == {"jsonl", "json", "lines", "protobuf", "pb", "proto",
                "binary", "framed", "PB", "xml"}

\* strings.ToLower on the format names of the model
ToLower(format) == IF format = "PB" THEN "pb" ELSE format

\* the switch of CreateSession on the lowered name
FormatKind(format) ==
    IF ToLower(format) \in {"jsonl", "json"} THEN "jsonl"
    ELSE IF ToLower(format) \in {"protobuf", "pb", "proto"} THEN "protobuf"
    ELSE "unknown"

\* the event file of each store kind
EventsFile(kind) == IF kind = "protobuf" THEN "events.pb" ELSE "events.jsonl"

NoDir == [exists |-> FALSE, names |-> {}, pb |-> <<>>, jl |-> <<>>]

NoMgrCall == [op |-> "none", id |-> "", err |-> "nil", kind |-> "none"]

MgrInit ==
    /\ sessionDirs = [id \in SessionIds |-> NoDir]
    /\ mgrStores = <<>>
    /\ created = [id \in SessionIds |-> "none"]
    /\ written = [id \in SessionIds |-> <<>>]
    /\ mgrCall = NoMgrCall

\* os.MkdirAll(sessionDir, 0755); saveSessionMetadata(sessionDir, session):
\* an existing directory is no error, and it keeps its files
MkSessionDir(dir) ==
    [dir EXCEPT !.exists = TRUE, !.names = @ \cup {"metadata.json"}]

\* os.OpenFile(path, O_CREATE|O_WRONLY|O_APPEND, 0644): the file is created
\* when it is missing and keeps its content when it is there
CreateFile(dir, name) == [dir EXCEPT !.names = @ \cup {name}]

\* Manager.CreateSession(ctx, session, format) with session.ID = id
MgrCreateSession(id, format) ==
    /\ LET kind == FormatKind(format)
           dir == MkSessionDir(sessionDirs[id])
       IN IF kind = "unknown"
            THEN /\ sessionDirs' = [sessionDirs EXCEPT ![id] = dir]
                 /\ mgrCall' = [op |-> "CreateSession", id |-> id,
                                err |-> "unknown format",
                                kind |-> "none"]
                 /\ UNCHANGED <<mgrStores, created, written>>
            ELSE /\ Len(mgrStores) < MaxHandles
                 /\ sessionDirs' = [sessionDirs EXCEPT
                                      ![id] = CreateFile(dir, EventsFile(kind))]
                 /\ mgrStores' = Append(mgrStores,
                                        [id |-> id, kind |-> kind,
                                         unlinked |-> FALSE])
                 /\ created' = [created EXCEPT ![id] = kind]
                 /\ mgrCall' = [op |-> "CreateSession", id |-> id,
                                err |-> "nil",
                                kind |-> kind]
                 /\ UNCHANGED written
    /\ UNCHANGED outsideMgr

\* the event file after WriteBatch(events) through a store of the kind
AppendBatch(dir, kind, events) ==
    IF kind = "protobuf"
      THEN [dir EXCEPT !.pb = PbWriteBatch([NewStore EXCEPT !.file = dir.pb],
                                           events, 0, 0).file]
      ELSE [dir EXCEPT !.jl = JlWriteBatch([NewStore EXCEPT !.file = dir.jl],
                                           events, 0, 0).file]

\* WriteBatch(events) on the i-th store CreateSession returned; a store whose
\* directory was removed writes to its unlinked file
MgrWriteBatch(i) ==
    /\ i \in DOMAIN mgrStores
    /\ LET h == mgrStores[i]
       IN /\ Len(written[h.id]) < MaxMgrEvents
          /\ \E events \in Batches(MaxMgrEvents - Len(written[h.id])) :
                IF h.unlinked
                  THEN UNCHANGED <<sessionDirs, written>>
                  ELSE /\ sessionDirs' =
                             [sessionDirs EXCEPT
                                ![h.id] = AppendBatch(@, h.kind, events)]
                       /\ written' = [written EXCEPT ![h.id] = @ \o events]
          /\ mgrCall' = [op |-> "WriteBatch", id |-> h.id, err |-> "nil", kind |-> h.kind]
    /\ UNCHANGED <<mgrStores, created, outsideMgr>>

\* Close() on the i-th store CreateSession returned
MgrCloseStore(i) ==
    /\ i \in DOMAIN mgrStores
    /\ mgrStores' = SubSeq(mgrStores, 1, i - 1)
                    \o SubSeq(mgrStores, i + 1, Len(mgrStores))
    /\ mgrCall' = [op |-> "Close", id |-> mgrStores[i].id, err |-> "nil", kind |-> mgrStores[i].kind]
    /\ UNCHANGED <<sessionDirs, created, written, outsideMgr>>

\* OpenProtobufStore and OpenJSONLStore as OpenSession calls them: the error
\* returned, "nil" for none
OpenStoreError(dir, kind) ==
    IF "metadata.json" \notin dir.names THEN "load session metadata"
    ELSE IF kind = "protobuf" /\ countProtobufEvents(dir.pb) < 0
           THEN "count events"
    ELSE "nil"

MgrOpenSessionTextualFirst(id) ==
    /\ LET dir == sessionDirs[id]
           kind == IF "events.jsonl" \in dir.names THEN "jsonl"
                   ELSE IF "events.pb" \in dir.names THEN "protobuf"
                   ELSE "none"
           err == IF kind = "none" THEN "no event store found"
                  ELSE OpenStoreError(dir, kind)
       IN mgrCall' = [op |-> "OpenSession", id |-> id, err |-> err,
                      kind |-> IF err = "nil" THEN kind ELSE "none"]
    /\ UNCHANGED <<sessionDirs, mgrStores, created, written, outsideMgr>>

\* Manager.OpenSession(ctx, id): os.Stat of events.pb, then of events.jsonl
MgrOpenSession(id) ==
    /\ LET dir == sessionDirs[id]
           kind == IF "events.pb" \in dir.names THEN "protobuf"
                   ELSE IF "events.jsonl" \in dir.names THEN "jsonl"
                   ELSE "none"
           err == IF kind = "none" THEN "no event store found"
                  ELSE OpenStoreError(dir, kind)
       IN mgrCall' = [op |-> "OpenSession", id |-> id, err |-> err,
                      kind |-> IF err = "nil" THEN kind ELSE "none"]
    /\ UNCHANGED <<sessionDirs, mgrStores, created, written, outsideMgr>>

\* Manager.DeleteSession(ctx, id): os.RemoveAll(sessionDir), which returns
\* nil also when the directory is missing; the open files of the stores
\* are unlinked
MgrDeleteSession(id) ==
    /\ sessionDirs' = [sessionDirs EXCEPT ![id] = NoDir]
    /\ mgrStores' = [i \in DOMAIN mgrStores |->
                       IF mgrStores[i].id = id
                         THEN [mgrStores[i] EXCEPT !.unlinked = TRUE]
                         ELSE mgrStores[i]]
    /\ created' = [created EXCEPT ![id] = "none"]
    /\ written' = [written EXCEPT ![id] = <<>>]
    /\ mgrCall' = [op |-> "DeleteSession", id |-> id, err |-> "nil", kind |-> "none"]
    /\ UNCHANGED outsideMgr

\* the query parameters of GET /api/sessions/{id}/events; "" is a
\* parameter that is not given
QueryKeys == {"goroutine", "event_type", "start_time", "end_time", "limit",
              "offset"}

\* the queries of the model: none, or one parameter with a number or with
\* a text that is no number
Queries ==
    LET none == [k \in QueryKeys |-> ""]
    IN {none} \cup
       { [none EXCEPT ![k] = v] : k \in QueryKeys, v \in {"1", "abc"} }

\* strconv.ParseUint and strconv.Atoi on the values of the model: the
\* number, or NilPtr for err != nil
ParseNumber(str) == IF str = "1" THEN 1 ELSE NilPtr

\* the filter getEvents builds: a parameter that is not given or does not
\* parse leaves its field as it is in &storage.EventFilter{}
QueryFilter(q) ==
    [ nil |-> FALSE,
      Goroutine |-> ParseNumber(q["goroutine"]),
      EventType |-> ParseNumber(q["event_type"]),
      StartTime |-> ParseNumber(q["start_time"]),
      EndTime |-> ParseNumber(q["end_time"]),
      Limit |-> IF ParseNumber(q["limit"]) = NilPtr THEN 0
                ELSE ParseNumber(q["limit"]),
      Offset |-> IF ParseNumber(q["offset"]) = NilPtr THEN 0
                 ELSE ParseNumber(q["offset"]) ]

\* Server.getEvents(w, r, sessionID): OpenSession, the filter from the
\* query, ReadEvents; the status written is kept as the error of the call
ApiGetEvents(id, q) ==
    /\ LET dir == sessionDirs[id]
           kind == IF "events.pb" \in dir.names THEN "protobuf"
                   ELSE IF "events.jsonl" \in dir.names THEN "jsonl"
                   ELSE "none"
           err == IF kind = "none" THEN "no event store found"
                  ELSE OpenStoreError(dir, kind)
           scan == IF kind = "protobuf"
                     THEN PbReadEvents(dir.pb, QueryFilter(q))
                     ELSE JlReadEvents(dir.jl, QueryFilter(q))
       IN mgrCall' = [op |-> "getEvents", id |-> id,
                      err |-> IF err # "nil" THEN "status 404"
                              ELSE IF scan.err THEN "status 500"
                              ELSE "status 200",
                      kind |-> IF err = "nil" THEN kind ELSE "none"]
    /\ UNCHANGED <<sessionDirs, mgrStores, created, written, outsideMgr>>

MgrNext ==
    \/ \E id \in SessionIds : \E format \in FormatNames :
          MgrCreateSession(id, format)
    \/ \E id \in SessionIds : \E q \in Queries : ApiGetEvents(id, q)
    \/ \E i \in 1..MaxHandles : MgrWriteBatch(i)
    \/ \E i \in 1..MaxHandles : MgrCloseStore(i)
    \/ \E id \in SessionIds : MgrOpenSession(id)
    \/ \E id \in SessionIds : MgrDeleteSession(id)

(***************************************************************************)
(* The metrics collector: the atomic counters the workers add to, the      *)
(* sampler goroutine, the snapshot published to the HTTP server, the       *)
(* /api/metrics handler and the metrics file written at shutdown.          *)
(* Counter additions commute, so the read workers are one source of read   *)
(* steps and the process workers one source of process and flush steps.    *)
(***************************************************************************)

\* what the clock measures for a wait, a processing time or a flush, in ns:
\* one value stands for all, the counters add every measurement alike
Durations == {2}

\* the events a process worker can receive, as far as the counters see them
MetEvents == { [ProbeDurationNs |-> 1, EventType |-> 0],
               [ProbeDurationNs |-> 3, EventType |-> 1] }

EventTypes == 0..5

ZeroAtomics ==
    [ eventCount |-> 0, lastEventCount |-> 0,
      readEventCount |-> 0, procEventCount |-> 0,
      probeDurationNsSum |-> 0, probeDurationNsCount |-> 0,
      processingTimeNsSum |-> 0, processingTimeNsCount |-> 0,
      batchesPerSecond |-> 0,
      batchFlushLatencySum |-> 0, batchFlushLatencyCount |-> 0,
      queueWaitLatencySum |-> 0, queueWaitLatencyCount |-> 0 ]

\* api.Metrics{}
ZeroMetrics ==
    [RPS |-> 0, PPS |-> 0, EWP |-> 0, LAT |-> 0, PRC |-> 0, BFL |-> 0, QWL |-> 0]

NoSeries ==
    [ rps |-> <<>>, pps |-> <<>>, ewp |-> <<>>, lat |-> <<>>, prc |-> <<>>,
      bps |-> <<>>, bfl |-> <<>>, qwl |-> <<>>, ts |-> <<>> ]

NoInterval ==
    [ reads |-> 0, procs |-> 0, probeSum |-> 0, probeCount |-> 0,
      processingSum |-> 0, processingCount |-> 0,
      flushSum |-> 0, flushCount |-> 0, waitSum |-> 0, waitCount |-> 0 ]

NoFile == [written |-> FALSE]

MetInit ==
    /\ atomics = ZeroAtomics
    /\ eventCountsByType = [t \in EventTypes |-> 0]
    /\ metQueued = 0
    /\ metBatch = 0
    /\ metStopped = FALSE
    /\ metricSeries = NoSeries
    /\ heap = <<ZeroMetrics>>
    /\ srvMetrics = 1
    /\ reqPtr = 0
    /\ response = [status |-> 0]
    /\ metricsFile = NoFile
    /\ published = {ZeroMetrics}
    /\ failedFlushes = 0
    /\ sinceSample = NoInterval
    /\ lastInterval = NoInterval

\* a read worker between reader(rd) and the next iteration: the queue wait
\* is recorded unless the clocks disagree (waited = FALSE)
MetRead(waited, wait) ==
    /\ ~metStopped
    /\ eventCountsByType[0] + eventCountsByType[1] + eventCountsByType[2]
         + eventCountsByType[3] + eventCountsByType[4] + eventCountsByType[5]
         + metQueued < MaxCounted
    /\ atomics' =
         [atomics EXCEPT
            !.queueWaitLatencySum = IF waited THEN @ + wait ELSE @,
            !.queueWaitLatencyCount = IF waited THEN @ + 1 ELSE @,
            !.eventCount = @ + 1,
            !.readEventCount = @ + 1]
    /\ metQueued' = metQueued + 1
    /\ sinceSample' =
         [sinceSample EXCEPT
            !.reads = @ + 1,
            !.waitSum = IF waited THEN @ + wait ELSE @,
            !.waitCount = IF waited THEN @ + 1 ELSE @]
    /\ UNCHANGED <<eventCountsByType, metBatch, metStopped, metricSeries,
                   heap, srvMetrics, reqPtr, response, metricsFile,
                   published, failedFlushes, lastInterval>>
    /\ UNCHANGED outsideMet

\* the counters a flush of a non-empty batch updates: the flush latency,
\* and the batch rate when time has passed since the last flush.  The rate
\* stored is 10^12 / t; the model keeps t itself, which determines it.
FlushCounters(a, d, t) ==
    [a EXCEPT !.batchFlushLatencySum = @ + d,
              !.batchFlushLatencyCount = @ + 1,
              !.batchesPerSecond = IF t > 0 THEN t ELSE @]

FlushInterval(g, d) ==
    [g EXCEPT !.flushSum = @ + d, !.flushCount = @ + 1]

\* the counters a process worker updates for one event
ProcessCounters(a, e, d) ==
    [a EXCEPT !.eventCount = @ - 1,
              !.procEventCount = @ + 1,
              !.probeDurationNsCount = @ + 1,
              !.probeDurationNsSum = @ + e.ProbeDurationNs,
              !.processingTimeNsSum = @ + d,
              !.processingTimeNsCount = @ + 1]

updateEventCounts(counts, e) ==
    IF e.EventType \in EventTypes
      THEN [counts EXCEPT ![e.EventType] = @ + 1]
      ELSE counts

\* a process worker takes one event; a full batch is flushed at once.
\* WriteBatch returning an error (ok = FALSE) is logged and nothing else.
MetProcess(e, d, ok, fd, t) ==
    /\ metQueued > 0
    /\ metricsFile = NoFile
    /\ ok \/ failedFlushes < MaxFaults
    /\ LET full == metBatch + 1 >= BatchSize
           a == ProcessCounters(atomics, e, d)
           g == [sinceSample EXCEPT
                   !.procs = @ + 1,
                   !.probeSum = @ + e.ProbeDurationNs,
                   !.probeCount = @ + 1,
                   !.processingSum = @ + d,
                   !.processingCount = @ + 1]
       IN /\ atomics' = IF full THEN FlushCounters(a, fd, t) ELSE a
          /\ sinceSample' = IF full THEN FlushInterval(g, fd) ELSE g
          /\ metBatch' = IF full THEN 0 ELSE metBatch + 1
          /\ failedFlushes' =
               IF full /\ ~ok THEN failedFlushes + 1 ELSE failedFlushes
    /\ metQueued' = metQueued - 1
    /\ eventCountsByType' = updateEventCounts(eventCountsByType, e)
    /\ UNCHANGED <<metStopped, metricSeries, heap, srvMetrics, reqPtr,
                   response, metricsFile, published, lastInterval>>
    /\ UNCHANGED outsideMet

\* flushBatch called by the timer, by the closed channel or after the drain
MetFlush(ok, fd, t) ==
    /\ metBatch > 0
    /\ metricsFile = NoFile
    /\ ok \/ failedFlushes < MaxFaults
    /\ atomics' = FlushCounters(atomics, fd, t)
    /\ sinceSample' = FlushInterval(sinceSample, fd)
    /\ metBatch' = 0
    /\ failedFlushes' = IF ok THEN failedFlushes ELSE failedFlushes + 1
    /\ UNCHANGED <<eventCountsByType, metQueued, metStopped, metricSeries,
                   heap, srvMetrics, reqPtr, response, metricsFile,
                   published, lastInterval>>
    /\ UNCHANGED outsideMet

\* sum / count as the sampler computes it, 0 when nothing was counted
Mean(sum, count) == IF count # 0 THEN sum \div count ELSE 0

\* an update that writes the rates into the object the server points at
UpdateMetricsInPlace(m) ==
    /\ heap' = [heap EXCEPT ![srvMetrics] =
                  [@ EXCEPT !.RPS = m.RPS, !.PPS = m.PPS, !.EWP = m.EWP]]
    /\ srvMetrics' = srvMetrics

\* Server.UpdateMetrics: the server points at the object the sampler
\* allocated; the previous object is left as it was
UpdateMetrics(m) ==
    /\ heap' = Append(heap, m)
    /\ srvMetrics' = Len(heap) + 1

\* one tick of the sampler.  statsInterval is one second, so the rates are
\* the counts; the batch rate is kept as FlushCounters stores it.
SamplerTick ==
    /\ metricsFile = NoFile
    /\ Len(metricSeries.rps) < MaxSamples
    /\ LET readEvs == atomics.readEventCount
           procEvs == atomics.procEventCount
           ec == atomics.eventCount
           lat == Mean(atomics.probeDurationNsSum,
                       atomics.probeDurationNsCount)
           procTime == Mean(atomics.processingTimeNsSum,
                            atomics.processingTimeNsCount)
           bfl == Mean(atomics.batchFlushLatencySum,
                       atomics.batchFlushLatencyCount)
           qwl == Mean(atomics.queueWaitLatencySum,
                       atomics.queueWaitLatencyCount)
       IN /\ atomics' = [atomics EXCEPT !.readEventCount = 0,
                                        !.procEventCount = 0,
                                        !.lastEventCount = ec]
          /\ metricSeries' =
               [ rps |-> Append(metricSeries.rps, readEvs),
                 pps |-> Append(metricSeries.pps, procEvs),
                 ewp |-> Append(metricSeries.ewp, ec),
                 lat |-> Append(metricSeries.lat, lat),
                 prc |-> Append(metricSeries.prc, procTime),
                 bps |-> Append(metricSeries.bps, atomics.batchesPerSecond),
                 bfl |-> Append(metricSeries.bfl, bfl),
                 qwl |-> Append(metricSeries.qwl, qwl),
                 ts |-> Append(metricSeries.ts, Len(metricSeries.ts) + 1) ]
          /\ LET m == [RPS |-> readEvs, PPS |-> procEvs, EWP |-> ec,
                       LAT |-> lat, PRC |-> procTime, BFL |-> bfl,
                       QWL |-> qwl]
             IN /\ UpdateMetrics(m)
                /\ published' = published \cup {m}
    /\ lastInterval' = sinceSample
    /\ sinceSample' = NoInterval
    /\ UNCHANGED <<eventCountsByType, metQueued, metBatch, metStopped,
                   reqPtr, response, metricsFile, failedFlushes>>
    /\ UNCHANGED outsideMet

\* handleMetrics up to RUnlock: a request that is not a GET is refused,
\* a GET loads the pointer under the read lock
HandleMetricsLoad(method) ==
    /\ reqPtr = 0
    /\ IF method # "GET"
         THEN /\ response' = [status |-> 405]
              /\ reqPtr' = 0
         ELSE /\ reqPtr' = srvMetrics
              /\ response' = response
    /\ UNCHANGED <<atomics, eventCountsByType, metQueued, metBatch,
                   metStopped, metricSeries, heap, srvMetrics, metricsFile,
                   published, failedFlushes, sinceSample, lastInterval>>
    /\ UNCHANGED outsideMet

\* handleMetrics after RUnlock: the object loaded is encoded
HandleMetricsEncode ==
    /\ reqPtr # 0
    /\ response' = [status |-> 200, body |-> heap[reqPtr]]
    /\ reqPtr' = 0
    /\ UNCHANGED <<atomics, eventCountsByType, metQueued, metBatch,
                   metStopped, metricSeries, heap, srvMetrics, metricsFile,
                   published, failedFlushes, sinceSample, lastInterval>>
    /\ UNCHANGED outsideMet

\* main closes readersStopped: the read workers have returned
MetStop ==
    /\ ~metStopped
    /\ metStopped' = TRUE
    /\ UNCHANGED <<atomics, eventCountsByType, metQueued, metBatch,
                   metricSeries, heap, srvMetrics, reqPtr, response,
                   metricsFile, published, failedFlushes, sinceSample,
                   lastInterval>>
    /\ UNCHANGED outsideMet

\* saveMetrics, called once the process workers have returned: the series
\* and the per-kind counts, and no other member
MetSaveMetrics ==
    /\ metStopped
    /\ metQueued = 0
    /\ metBatch = 0
    /\ metricsFile = NoFile
    /\ metricsFile' =
         [ written |-> TRUE,
           rps |-> metricSeries.rps, pps |-> metricSeries.pps,
           ewp |-> metricSeries.ewp, lat |-> metricSeries.lat,
           prc |-> metricSeries.prc, bps |-> metricSeries.bps,
           bfl |-> metricSeries.bfl, qwl |-> metricSeries.qwl,
           ts |-> metricSeries.ts,
           event_counts |-> eventCountsByType ]
    /\ UNCHANGED <<atomics, eventCountsByType, metQueued, metBatch,
                   metStopped, metricSeries, heap, srvMetrics, reqPtr,
                   response, published, failedFlushes, sinceSample,
                   lastInterval>>
    /\ UNCHANGED outsideMet

MetNext ==
    \/ \E waited \in BOOLEAN : \E wait \in Durations : MetRead(waited, wait)
    \/ \E e \in MetEvents : \E d \in Durations : \E ok \in BOOLEAN :
         \E fd \in Durations : \E t \in Durations :
            MetProcess(e, d, ok, fd, t)
    \/ \E ok \in BOOLEAN : \E fd \in Durations : \E t \in Durations :
         MetFlush(ok, fd, t)
    \/ SamplerTick
    \/ \E method \in {"GET", "POST"} : HandleMetricsLoad(method)
    \/ HandleMetricsEncode
    \/ MetStop
    \/ MetSaveMetrics

(***************************************************************************)
(* The broadcast hub.  Server.BroadcastEvent and Server.BroadcastBatch     *)
(* marshal a frame and hand it to Hub.Broadcast; the hub itself is         *)
(* modelled from its specification: a set of subscribers, each with a      *)
(* bounded outbound queue and a sink, a non-blocking push per subscriber,  *)
(* a counter of consecutive failed pushes, and eviction at the threshold.  *)
(* A frame in a queue or in a sink is named by its place in the dispatch   *)
(* order.                                                                  *)
(***************************************************************************)
Subscribers == {"a", "b"}

\* consecutive failed pushes after which a subscriber is evicted
SlowThreshold == 2

NoSubscriber ==
    [status |-> "none", joinedAt |-> 0, queue |-> <<>>, slow |-> 0,
     received |-> <<>>, missed |-> {}]

HubInit ==
    /\ dispatched = <<>>
    /\ subs = [s \in Subscribers |-> NoSubscriber]

\* a viewer connects on /ws and is registered with an empty queue
HubSubscribe(s) ==
    /\ subs[s].status = "none"
    /\ subs' = [subs EXCEPT ![s] = [@ EXCEPT !.status = "active",
                                             !.joinedAt = Len(dispatched)]]
    /\ UNCHANGED dispatched
    /\ UNCHANGED outsideHub

\* a viewer disconnects: it is unregistered and its sink closed
HubUnsubscribe(s) ==
    /\ subs[s].status = "active"
    /\ subs' = [subs EXCEPT ![s] = [@ EXCEPT !.status = "left",
                                             !.queue = <<>>]]
    /\ UNCHANGED dispatched
    /\ UNCHANGED outsideHub

\* a push that makes room by dropping the oldest queued frame
HubPushDropOldest(sub, n) ==
    IF sub.status # "active" THEN sub
    ELSE IF Len(sub.queue) < SubQueueCap
           THEN [sub EXCEPT !.queue = Append(@, n), !.slow = 0]
           ELSE [sub EXCEPT !.queue = Append(Tail(@), n), !.slow = @ + 1]

\* the non-blocking push of frame n onto the queue of one subscriber: a
\* full queue drops the frame for this subscriber and counts the failure,
\* and the subscriber is evicted at the threshold
HubPush(sub, n) ==
    IF sub.status # "active" THEN sub
    ELSE IF Len(sub.queue) < SubQueueCap
           THEN [sub EXCEPT !.queue = Append(@, n), !.slow = 0]
           ELSE [sub EXCEPT !.slow = @ + 1,
                            !.missed = @ \cup {n},
                            !.status = IF sub.slow + 1 >= SlowThreshold
                                         THEN "evicted" ELSE @,
                            !.queue = IF sub.slow + 1 >= SlowThreshold
                                        THEN <<>> ELSE @]

\* Hub.Broadcast(data): one push per subscriber
HubBroadcast(shape) ==
    /\ Len(dispatched) < MaxFrames
    /\ dispatched' = Append(dispatched, shape)
    /\ subs' = [s \in Subscribers |-> HubPush(subs[s], Len(dispatched) + 1)]
    /\ UNCHANGED outsideHub

\* Server.BroadcastEvent(event): the event as one JSON object
ApiBroadcastEvent == HubBroadcast("event")

\* Server.BroadcastBatch(events): an object with "type":"batch" and the events
ApiBroadcastBatch == HubBroadcast("batch")

\* a pump that sends the newest queued frame first
SubDeliverNewest(s) ==
    /\ subs[s].status = "active"
    /\ subs[s].queue # <<>>
    /\ LET q == subs[s].queue
       IN subs' = [subs EXCEPT ![s] =
                     [@ EXCEPT !.received = Append(@, q[Len(q)]),
                               !.queue = SubSeq(q, 1, Len(q) - 1)]]
    /\ UNCHANGED dispatched
    /\ UNCHANGED outsideHub

\* the pump of a subscriber takes the head of its queue and writes it to
\* the sink
SubDeliver(s) ==
    /\ subs[s].status = "active"
    /\ subs[s].queue # <<>>
    /\ subs' = [subs EXCEPT ![s] =
                  [@ EXCEPT !.received = Append(@, Head(subs[s].queue)),
                            !.queue = Tail(@)]]
    /\ UNCHANGED dispatched
    /\ UNCHANGED outsideHub

HubNext ==
    \/ \E s \in Subscribers : HubSubscribe(s)
    \/ \E s \in Subscribers : HubUnsubscribe(s)
    \/ ApiBroadcastEvent
    \/ ApiBroadcastBatch
    \/ \E s \in Subscribers : SubDeliver(s)

(***************************************************************************)
(* parseSamplingRates on the text of the -sample flag.  A text is a        *)
(* sequence of tokens: a name, a rate literal, ":", "," or one space.  No  *)
(* two tokens of the model join into a known name, and every literal that  *)
(* is a number holds a point, so no two join into a number.                *)
(***************************************************************************)
eventNameToType ==
    ("casgstatus" :> 0) @@ ("makeslice" :> 1) @@ ("makemap" :> 2)
    @@ ("newobject" :> 3) @@ ("newgoroutine" :> 4) @@ ("goexit" :> 5)

\* the finite values strconv.ParseFloat returns for the literals of the
\* model, in thousandths
FloatLiterals ==
    ("0.0" :> 0) @@ ("0.018" :> 18) @@ ("0.5" :> 500) @@ ("1.0" :> 1000)
    @@ ("1.1" :> 1100) @@ ("-0.1" :> -100)

\* uint32(NaN) is implementation-dependent: two values a build can give
NaNPercents == {0, 2147483647}

\* a pair as it is written: a name and a rate, "" for one that is left
\* out; colons is the number of ":" in it, and a padded pair has a space
\* on each side of the name and of the rate
PairShapes ==
    [name : {"makemap", "goexit", "nonexistent", ""},
     rate : DOMAIN FloatLiterals \cup {"abc", "NaN", ""},
     padded : BOOLEAN, colons : {1}]
    \cup [name : {"makemap"}, rate : {"0.5"}, padded : {FALSE},
          colons : {0, 2}]

\* the text of one pair
PairText(p) ==
    LET Word(w) == LET t == IF w = "" THEN <<>> ELSE <<w>>
                   IN IF p.padded THEN <<" ">> \o t \o <<" ">> ELSE t
    IN Word(p.name)
       \o (IF p.colons >= 1 THEN <<":">> ELSE <<>>)
       \o Word(p.rate)
       \o (IF p.colons >= 2 THEN <<":", "extra">> ELSE <<>>)

RECURSIVE Split(_, _)
\* strings.Split(s, sep) for a separator of one token
Split(str, sep) ==
    IF \E i \in DOMAIN str : str[i] = sep
      THEN LET i == CHOOSE i \in DOMAIN str :
                       str[i] = sep /\ \A j \in 1..(i - 1) : str[j] # sep
           IN <<SubSeq(str, 1, i - 1)>>
              \o Split(SubSeq(str, i + 1, Len(str)), sep)
      ELSE <<str>>

RECURSIVE TrimSpace(_)
\* strings.TrimSpace(s)
TrimSpace(str) ==
    IF str # <<>> /\ str[1] = " " THEN TrimSpace(Tail(str))
    ELSE IF str # <<>> /\ str[Len(str)] = " "
           THEN TrimSpace(SubSeq(str, 1, Len(str) - 1))
    ELSE str

\* strconv.ParseFloat(s, 64): "NaN" parses, to the value that is no number
ParseFloat(str) ==
    IF Len(str) = 1 /\ str[1] \in DOMAIN FloatLiterals
      THEN [ok |-> TRUE, nan |-> FALSE, milli |-> FloatLiterals[str[1]]]
      ELSE IF str = <<"NaN">>
             THEN [ok |-> TRUE, nan |-> TRUE, milli |-> 0]
             ELSE [ok |-> FALSE, nan |-> FALSE, milli |-> 0]

\* a conversion that cuts the fraction off
TruncPercent(milli) == milli \div 10

\* uint32(math.Round(rate * 100)) for a rate in 0..1, in thousandths
RoundPercent(milli) == (milli + 5) \div 10

RECURSIVE ParsePairs(_, _, _)
\* the loop of parseSamplingRates over the pairs; nanAs is what the build
\* gives for uint32(NaN)
ParsePairs(pairs, rates, nanAs) ==
    IF pairs = <<>> THEN [err |-> "nil", nil |-> FALSE, rates |-> rates]
    ELSE LET RatesError(msg) ==
                 [err |-> msg, nil |-> TRUE, rates |-> [t \in {} |-> 0]]
             parts == Split(Head(pairs), ":")
             eventName == TrimSpace(parts[1])
             ok == Len(eventName) = 1
                   /\ eventName[1] \in DOMAIN eventNameToType
             eventType == eventNameToType[eventName[1]]
             rate == ParseFloat(TrimSpace(parts[2]))
             percentage == IF rate.nan THEN nanAs
                           ELSE RoundPercent(rate.milli)
         IN IF Len(parts) # 2 THEN RatesError("invalid sampling rate format")
            ELSE IF ~ok THEN RatesError("unknown event name")
            ELSE IF ~rate.ok THEN RatesError("invalid rate")
            ELSE IF ~rate.nan /\ (rate.milli < 0 \/ rate.milli > 1000)
                   THEN RatesError("sampling rate must be between 0 and 1")
            ELSE ParsePairs(Tail(pairs),
                            [t \in DOMAIN rates \cup {eventType} |->
                               IF t = eventType THEN percentage
                               ELSE rates[t]],
                            nanAs)

\* parseSamplingRates(ratesStr)
parseSamplingRates(str, nanAs) ==
    IF str = <<>>
      THEN [err |-> "nil", nil |-> FALSE, rates |-> [t \in {} |-> 0]]
      ELSE ParsePairs(Split(str, ","), [t \in {} |-> 0], nanAs)

FlagInit ==
    /\ samplingPairs = <<>>
    /\ ratesStr = <<>>
    /\ rateResult = [err |-> "not called", nil |-> TRUE,
                     rates |-> [t \in {} |-> 0]]

\* one more pair is written to the flag
FlagAddPair(p) ==
    /\ rateResult.err = "not called"
    /\ Len(samplingPairs) < MaxPairs
    /\ samplingPairs' = Append(samplingPairs, p)
    /\ ratesStr' = IF samplingPairs = <<>> THEN PairText(p)
                   ELSE ratesStr \o <<",">> \o PairText(p)
    /\ UNCHANGED rateResult
    /\ UNCHANGED outsideFlag

\* main parses the flag
FlagParse ==
    /\ rateResult.err = "not called"
    /\ \E nanAs \in NaNPercents :
          rateResult' = parseSamplingRates(ratesStr, nanAs)
    /\ UNCHANGED <<samplingPairs, ratesStr>>
    /\ UNCHANGED outsideFlag

FlagNext ==
    \/ \E p \in PairShapes : FlagAddPair(p)
    \/ FlagParse

(***************************************************************************)
(* The probes of xgotop.h and the sampling map main writes for them.  A    *)
(* probe is a function of the maps, of the sampling map and of the inputs  *)
(* of one firing (the goroutine that runs, the goroutine passed, the new   *)
(* status, the number drawn by bpf_get_prandom_u32 modulo 100), so that a  *)
(* run can be replayed under another sampling map.  The ringbuffer has     *)
(* room for every event here; its overflow is part of the pipeline above.  *)
(***************************************************************************)
GO_RUNTIME_EVENT_TYPE_CAS_G_STATUS == 0
GO_RUNTIME_EVENT_TYPE_MAKE_SLICE == 1
GO_RUNTIME_EVENT_TYPE_MAKE_MAP == 2
GO_RUNTIME_EVENT_TYPE_NEW_OBJECT == 3
GO_RUNTIME_EVENT_TYPE_NEWGOROUTINE == 4
GO_RUNTIME_EVENT_TYPE_GOEXIT == 5
G_STATUS_DEAD == 6

Goids == 1..NGoroutines
\* the draws of bpf_get_prandom_u32() % 100 told apart
Rands == {0, 99}
\* the percentages main writes to the map
RatePercents == {0, 50, 100}

\* the maps parseSamplingRates can return, of up to MaxListed kinds
RateMaps ==
    UNION {[S -> RatePercents] :
             S \in {T \in SUBSET EventTypes : Cardinality(T) <= MaxListed}}

\* the inputs of one firing of a probe: g is the goroutine that runs,
\* gp the goroutine passed to casgstatus or the caller passed to newproc1
Firings(probe) ==
    [probe : {probe}, g : Goids,
     gp : IF probe \in {"casgstatus", "newproc1"} THEN Goids ELSE {0},
     newval : IF probe = "casgstatus"
                THEN {2, G_STATUS_DEAD} ELSE {0},
     rand : Rands]

EmptyMaps == [creation |-> [g \in {} |-> 0], exit |-> [g \in {} |-> 0],
              out |-> <<>>]

\* CHECK_SAMPLING: TRUE when the probe goes on, FALSE when it returns 0
CHECK_SAMPLING(rates, event_type, rand) ==
    LET rate == IF event_type \in DOMAIN rates THEN rates[event_type]
                ELSE 100
    IN  ~(rate < 100 /\ rand >= rate)

\* SEND_EVENT
SEND_EVENT(k, event_type, g_id) ==
    [k EXCEPT !.out = Append(@, [type |-> event_type, g |-> g_id])]

\* uprobe_casgstatus(gp, oldval, newval)
uprobe_casgstatus(k, rates, f) ==
    IF ~CHECK_SAMPLING(rates, GO_RUNTIME_EVENT_TYPE_CAS_G_STATUS, f.rand)
      THEN k
    ELSE IF f.newval = G_STATUS_DEAD /\ f.gp \in DOMAIN k.exit
      THEN LET k1 == SEND_EVENT(k, GO_RUNTIME_EVENT_TYPE_CAS_G_STATUS, f.g)
               k2 == SEND_EVENT(k1, GO_RUNTIME_EVENT_TYPE_GOEXIT, f.g)
           IN  [k2 EXCEPT !.exit = [x \in DOMAIN @ \ {f.g} |-> @[x]]]
    ELSE LET k1 == IF f.g \in DOMAIN k.creation
                     THEN [SEND_EVENT(k, GO_RUNTIME_EVENT_TYPE_NEWGOROUTINE,
                                      f.g)
                             EXCEPT !.creation =
                                      [x \in DOMAIN @ \ {f.g} |-> @[x]]]
                     ELSE k
         IN  SEND_EVENT(k1, GO_RUNTIME_EVENT_TYPE_CAS_G_STATUS, f.g)

\* uprobe_newobject(typ)
uprobe_newobject(k, rates, f) ==
    IF ~CHECK_SAMPLING(rates, GO_RUNTIME_EVENT_TYPE_NEW_OBJECT, f.rand)
      THEN k
      ELSE SEND_EVENT(k, GO_RUNTIME_EVENT_TYPE_NEW_OBJECT, f.g)

\* uprobe_makeslice(et, len, cap)
uprobe_makeslice(k, rates, f) ==
    IF ~CHECK_SAMPLING(rates, GO_RUNTIME_EVENT_TYPE_MAKE_SLICE, f.rand)
      THEN k
      ELSE SEND_EVENT(k, GO_RUNTIME_EVENT_TYPE_MAKE_SLICE, f.g)

\* uprobe_makemap(t, hint, h)
uprobe_makemap(k, rates, f) ==
    IF ~CHECK_SAMPLING(rates, GO_RUNTIME_EVENT_TYPE_MAKE_MAP, f.rand)
      THEN k
      ELSE SEND_EVENT(k, GO_RUNTIME_EVENT_TYPE_MAKE_MAP, f.g)

\* uprobe_newproc1(fn, callergp): sends nothing, notes the caller
uprobe_newproc1(k, rates, f) ==
    IF ~CHECK_SAMPLING(rates, GO_RUNTIME_EVENT_TYPE_NEWGOROUTINE, f.rand)
      THEN k
      ELSE [k EXCEPT !.creation =
                       [x \in DOMAIN @ \cup {f.g} |->
                          IF x = f.g THEN f.gp ELSE @[x]]]

\* uprobe_goexit1(): sends nothing, notes the exit
uprobe_goexit1(k, rates, f) ==
    IF ~CHECK_SAMPLING(rates, GO_RUNTIME_EVENT_TYPE_GOEXIT, f.rand)
      THEN k
      ELSE [k EXCEPT !.exit =
                       [x \in DOMAIN @ \cup {f.g} |->
                          IF x = f.g THEN 1 ELSE @[x]]]

\* the probe attached to the symbol that fired
Uprobe(k, rates, f) ==
    CASE f.probe = "casgstatus" -> uprobe_casgstatus(k, rates, f)
      [] f.probe = "newobject" -> uprobe_newobject(k, rates, f)
      [] f.probe = "makeslice" -> uprobe_makeslice(k, rates, f)
      [] f.probe = "makemap" -> uprobe_makemap(k, rates, f)
      [] f.probe = "newproc1" -> uprobe_newproc1(k, rates, f)
      [] f.probe = "goexit1" -> uprobe_goexit1(k, rates, f)

RECURSIVE Replay(_, _, _)
\* the maps and the ringbuffer after the firings fs under the map rates
Replay(k, rates, fs) ==
    IF fs = <<>> THEN k
    ELSE Replay(Uprobe(k, rates, Head(fs)), rates, Tail(fs))

ProbeInit ==
    /\ probePhase = "loaded"
    /\ sampling_rates = [t \in {} |-> 0]
    /\ goroutines_in_creation = [g \in {} |-> 0]
    /\ goroutines_in_exit = [g \in {} |-> 0]
    /\ ringbuf = <<>>
    /\ firings = <<>>

\* main writes the parsed rates to the map, then attaches the probes
ApplySamplingRates(rates) ==
    /\ probePhase = "loaded"
    /\ sampling_rates' = rates
    /\ probePhase' = "attached"
    /\ UNCHANGED <<goroutines_in_creation, goroutines_in_exit, ringbuf,
                   firings>>
    /\ UNCHANGED outsideProbe

\* the traced program reaches a probed symbol
UprobeFires(f) ==
    /\ probePhase = "attached"
    /\ Len(firings) < MaxFirings
    /\ LET k == Uprobe([creation |-> goroutines_in_creation,
                        exit |-> goroutines_in_exit, out |-> ringbuf],
                       sampling_rates, f)
       IN  /\ goroutines_in_creation' = k.creation
           /\ goroutines_in_exit' = k.exit
           /\ ringbuf' = k.out
    /\ firings' = Append(firings, f)
    /\ UNCHANGED <<probePhase, sampling_rates>>
    /\ UNCHANGED outsideProbe

ProbeNext ==
    \/ \E rates \in RateMaps : ApplySamplingRates(rates)
    \/ \E f \in Firings("casgstatus") : UprobeFires(f)
    \/ \E f \in Firings("newobject") : UprobeFires(f)
    \/ \E f \in Firings("makeslice") : UprobeFires(f)
    \/ \E f \in Firings("makemap") : UprobeFires(f)
    \/ \E f \in Firings("newproc1") : UprobeFires(f)
    \/ \E f \in Firings("goexit1") : UprobeFires(f)

(***************************************************************************)
(* The event files and the disk.  The stores open their files without      *)
(* O_SYNC and never call File.Sync: what Write hands to the kernel stays   *)
(* in the page cache until the kernel writes it back, at a time of its own *)
(* choosing; only what was written back survives a loss of power.  No     *)
(* call of the stores changes durable.                                     *)
(***************************************************************************)
DiskInit == durable = [pb |-> 0, jl |-> 0]

\* the kernel writes the dirty pages of both files back
WriteBack ==
    /\ durable # [pb |-> Len(pb.file), jl |-> Len(jl.file)]
    /\ durable' = [pb |-> Len(pb.file), jl |-> Len(jl.file)]
    /\ UNCHANGED outsideDisk

DiskNext == StoreNext \/ WriteBack

(***************************************************************************)
(* WriteBatch called by several process workers on the store they share.   *)
(* A call is a sequence of steps: Lock, one step for each Write on the     *)
(* bufio.Writer, and the final Flush with the count, the deferred Unlock   *)
(* and the return.  The file fails at a write the environment chooses.     *)
(***************************************************************************)
IdleCall == [state |-> "idle", events |-> <<>>, pos |-> 0]

\* what WriteBatch passes to writer.Write, call by call: the marker, the
\* length and the data of the frame, or a line for each event
WbChunks(kind, events) ==
    IF kind = "pb"
      THEN LET data == MarshalBatch(events)
           IN  << <<BatchMarker>>, <<Len(data)>>, data >>
      ELSE [i \in DOMAIN events |-> MarshalJSON(events[i])]

WbInit ==
    /\ wbKind = "none"
    /\ wbW = Writer(NewStore, 0, 0, 0)
    /\ wbCount = 0
    /\ wbMu = 0
    /\ wbCall = [p \in Procs |-> IdleCall]
    /\ wbLog = <<>>

\* NewProtobufStore or NewJSONLStore
WbNewStore(kind) ==
    /\ wbKind = "none"
    /\ wbKind' = kind
    /\ wbW' = Writer(NewStore, IF kind = "pb" THEN PbBufSize ELSE JlBufSize,
                     0, 0)
    /\ UNCHANGED <<wbCount, wbMu, wbCall, wbLog>>
    /\ UNCHANGED outsideWb

\* the file write after the next at - 1 fails, after n tokens
WbFault(at, n) ==
    /\ wbKind # "none"
    /\ ~wbW.err /\ wbW.faultAt = 0
    /\ wbW' = [wbW EXCEPT !.faultAt = at, !.faultN = n]
    /\ UNCHANGED <<wbKind, wbCount, wbMu, wbCall, wbLog>>
    /\ UNCHANGED outsideWb

WbLockNoMutex(p, events) ==
    /\ wbKind # "none"
    /\ wbCall[p].state = "idle"
    /\ wbMu' = p
    /\ wbCall' = [wbCall EXCEPT ![p] = [state |-> "run", events |-> events,
                                        pos |-> 1]]
    /\ UNCHANGED <<wbKind, wbW, wbCount, wbLog>>
    /\ UNCHANGED outsideWb

\* WriteBatch(events): s.mu.Lock()
WbLock(p, events) ==
    /\ wbKind # "none"
    /\ wbCall[p].state = "idle"
    /\ wbMu = 0
    /\ wbMu' = p
    /\ wbCall' = [wbCall EXCEPT ![p] = [state |-> "run", events |-> events,
                                        pos |-> 1]]
    /\ UNCHANGED <<wbKind, wbW, wbCount, wbLog>>
    /\ UNCHANGED outsideWb

\* the return of the call of worker p, with the deferred s.mu.Unlock()
WbReturn(p, ok) ==
    /\ wbMu' = 0
    /\ wbCall' = [wbCall EXCEPT ![p] = [@ EXCEPT !.state = "done"]]
    /\ wbLog' = Append(wbLog, [events |-> wbCall[p].events, ok |-> ok])

\* the next s.writer.Write of the call (with WriteByte and eventCount++ in
\* the JSONL store); an error returns
WbWrite(p) ==
    /\ wbCall[p].state = "run"
    /\ wbCall[p].pos <= Len(WbChunks(wbKind, wbCall[p].events))
    /\ LET w1 == BufWrite(wbW, WbChunks(wbKind, wbCall[p].events)
                                 [wbCall[p].pos])
           w2 == IF wbKind = "jl" /\ ~w1.err THEN BufWriteByte(w1, NewLine)
                 ELSE w1
       IN  /\ wbW' = w2
           /\ wbCount' = IF wbKind = "jl" /\ ~w2.err THEN wbCount + 1
                         ELSE wbCount
           /\ IF w2.err
                THEN WbReturn(p, FALSE)
                ELSE /\ wbCall' = [wbCall EXCEPT ![p] =
                                     [@ EXCEPT !.pos = @ + 1]]
                     /\ UNCHANGED <<wbMu, wbLog>>
    /\ UNCHANGED wbKind
    /\ UNCHANGED outsideWb

\* s.writer.Flush(), then eventCount += len(events) in the protobuf store,
\* and the return
WbFlush(p) ==
    /\ wbCall[p].state = "run"
    /\ wbCall[p].pos > Len(WbChunks(wbKind, wbCall[p].events))
    /\ LET w == BufFlush(wbW)
       IN  /\ wbW' = w
           /\ wbCount' = IF wbKind = "pb" /\ ~w.err
                           THEN wbCount + Len(wbCall[p].events)
                           ELSE wbCount
           /\ WbReturn(p, ~w.err)
    /\ UNCHANGED wbKind
    /\ UNCHANGED outsideWb

WbNext ==
    \/ \E kind \in {"pb", "jl"} : WbNewStore(kind)
    \/ \E at \in 1..2, n \in 0..MaxShortWrite : WbFault(at, n)
    \/ \E p \in Procs, events \in Batches(MaxBatchLen) : WbLock(p, events)
    \/ \E p \in Procs : WbWrite(p)
    \/ \E p \in Procs : WbFlush(p)

(***************************************************************************)
(* The viewer's WebSocketClient (web/src/services/websocket.ts) and the    *)
(* App effect that mounts it.  connect(), disconnect(), the handlers of a  *)
(* socket and a reconnect timer each run to completion, in any order the   *)
(* browser schedules them.  A socket the client has dropped its reference  *)
(* to keeps its handlers.                                                  *)
(***************************************************************************)
maxReconnectAttempts == 10

\* the sockets that are connecting or open
Live == {i \in DOMAIN sockets : sockets[i] \in {"connecting", "open"}}

ClientInit ==
    /\ sockets = <<>>
    /\ ws = 0
    /\ reconnectAttempts = 0
    /\ isIntentionallyClosed = FALSE
    /\ callbacks = 0
    /\ timers = 0
    /\ mounted = FALSE
    /\ throws = 0
    /\ deliveries = 0

\* reconnect(), with pending timers before it: gives up at
\* maxReconnectAttempts, else counts the attempt and sets a timer that
\* calls connect()
reconnect(pending) ==
    IF reconnectAttempts >= maxReconnectAttempts
      THEN /\ timers' = pending
           /\ UNCHANGED reconnectAttempts
      ELSE /\ reconnectAttempts' = reconnectAttempts + 1
           /\ timers' = pending + 1

\* connect(): a new socket is created and assigned to this.ws, whatever
\* this.ws held; when new WebSocket throws, reconnect()
connect(threw, pending) ==
    /\ isIntentionallyClosed' = FALSE
    /\ IF threw
         THEN /\ throws < MaxThrows
              /\ throws' = throws + 1
              /\ reconnect(pending)
              /\ UNCHANGED <<sockets, ws>>
         ELSE /\ Len(sockets) < MaxSockets
              /\ sockets' = Append(sockets, "connecting")
              /\ ws' = Len(sockets) + 1
              /\ timers' = pending
              /\ UNCHANGED <<reconnectAttempts, throws>>

\* the App effect runs: wsClient.connect(), wsClient.onEvent(...)
AppMount(threw) ==
    /\ ~mounted
    /\ mounted' = TRUE
    /\ connect(threw, timers)
    /\ callbacks' = callbacks + 1
    /\ UNCHANGED deliveries
    /\ UNCHANGED outsideClient

\* disconnect()
disconnect ==
    /\ isIntentionallyClosed' = TRUE
    /\ IF ws # 0
         THEN /\ sockets' = [sockets EXCEPT ![ws] =
                               IF @ = "closed" THEN @ ELSE "closing"]
              /\ ws' = 0
         ELSE UNCHANGED <<sockets, ws>>

\* the cleanup of the App effect: unsubscribe(), wsClient.disconnect()
AppUnmount ==
    /\ mounted
    /\ mounted' = FALSE
    /\ callbacks' = callbacks - 1
    /\ disconnect
    /\ UNCHANGED <<reconnectAttempts, timers, throws, deliveries>>
    /\ UNCHANGED outsideClient

\* a reconnect timer fires: this.connect()
TimerFires(threw) ==
    /\ timers > 0
    /\ connect(threw, timers - 1)
    /\ UNCHANGED <<callbacks, mounted, deliveries>>
    /\ UNCHANGED outsideClient

\* ws.onopen of the socket i
SocketOpens(i) ==
    /\ i \in DOMAIN sockets
    /\ sockets[i] = "connecting"
    /\ sockets' = [sockets EXCEPT ![i] = "open"]
    /\ reconnectAttempts' = 0
    /\ UNCHANGED <<ws, isIntentionallyClosed, callbacks, timers, mounted,
                   throws, deliveries>>
    /\ UNCHANGED outsideClient

\* ws.onclose of the socket i: after close(), a close by the server or a
\* failed connection
SocketCloses(i) ==
    /\ i \in DOMAIN sockets
    /\ sockets[i] # "closed"
    /\ sockets' = [sockets EXCEPT ![i] = "closed"]
    /\ ws' = 0
    /\ IF ~isIntentionallyClosed THEN reconnect(timers)
       ELSE UNCHANGED <<reconnectAttempts, timers>>
    /\ UNCHANGED <<isIntentionallyClosed, callbacks, mounted, throws,
                   deliveries>>
    /\ UNCHANGED outsideClient

\* the hub sends a frame with one event to every connection: ws.onmessage
\* of each open socket passes the event to every callback
ServerFrame ==
    /\ Live # {}
    /\ deliveries' = Cardinality({i \in DOMAIN sockets : sockets[i] = "open"})
                     * callbacks
    /\ UNCHANGED <<sockets, ws, reconnectAttempts, isIntentionallyClosed,
                   callbacks, timers, mounted, throws>>
    /\ UNCHANGED outsideClient

ClientNext ==
    \/ \E threw \in BOOLEAN : AppMount(threw)
    \/ AppUnmount
    \/ \E threw \in BOOLEAN : TimerFires(threw)
    \/ \E i \in 1..MaxSockets : SocketOpens(i)
    \/ \E i \in 1..MaxSockets : SocketCloses(i)
    \/ ServerFrame

(***************************************************************************)
(* The specifications: the pipeline, the store calls, the manager calls    *)
(* and the metrics collector, each with the state of the others left      *)
(* alone.                                                                  *)
(***************************************************************************)
Init == PipeInit /\ StoreInit /\ MgrInit /\ MetInit /\ HubInit
        /\ FlagInit /\ ProbeInit /\ DiskInit /\ WbInit
        /\ ClientInit

Next == PipeNext

Spec == Init /\ [][Next]_vars

StoreSpec == Init /\ [][StoreNext]_vars

ManagerSpec == Init /\ [][MgrNext]_vars

MetricsSpec == Init /\ [][MetNext]_vars

HubSpec == Init /\ [][HubNext]_vars

FlagSpec == Init /\ [][FlagNext]_vars

ProbeSpec == Init /\ [][ProbeNext]_vars

DiskSpec == Init /\ [][DiskNext]_vars

WritersSpec == Init /\ [][WbNext]_vars

ClientSpec == Init /\ [][ClientNext]_vars

(***************************************************************************)
(* The scheduling of the pipeline: every goroutine that can take a step    *)
(* eventually takes one.  Nothing is assumed of the probes, of the signal  *)
(* or of the flush deadlines.                                              *)
(***************************************************************************)
PipeFairness ==
    /\ WF_vars(StopWatcher)
    /\ \A r \in Readers : WF_vars(ReaderStep(r))
    /\ \A p \in Procs : WF_vars(ProcStep(p))
    /\ WF_vars(MainNext)

FairSpec == Init /\ [][Next]_vars /\ PipeFairness

(***************************************************************************)
(* Derived values of the pipeline.                                         *)
(***************************************************************************)
RECURSIVE SumRead(_)
SumRead(S) ==
    IF S = {} THEN 0
    ELSE LET r == CHOOSE x \in S : TRUE
         IN nRead[r] + SumRead(S \ {r})

\* the number of events the read workers have read and decoded
TotalRead == SumRead(Readers)

IsEvent(e, r, n) == e.rw = r /\ e.seq = n

\* the number of places that hold the n-th event read by worker r
Places(r, n) ==
      Cardinality({q \in Readers : IsEvent(held[q], r, n)})
    + Cardinality({i \in DOMAIN eventCh : IsEvent(eventCh[i], r, n)})
    + Cardinality({pi \in Procs \X (1..BatchSize) :
                     /\ pi[2] \in DOMAIN batch[pi[1]]
                     /\ IsEvent(batch[pi[1]][pi[2]], r, n)})
    + Cardinality({ki \in (DOMAIN flushLog) \X (1..BatchSize) :
                     /\ ki[2] \in DOMAIN flushLog[ki[1]].events
                     /\ IsEvent(flushLog[ki[1]].events[ki[2]], r, n)})

ShutdownComplete == pcMain \in {"metricsSaved", "sessionUpdated",
                                "serverStopped", "Stopped"}

RECURSIVE FlushedFrom(_)
\* the number of events the process workers have passed to a flush
FlushedFrom(log) ==
    IF log = <<>> THEN 0
    ELSE Len(Head(log).events) + FlushedFrom(Tail(log))

(***************************************************************************)
(* C1: in web mode, once shutdown has completed (all read workers and all  *)
(* process workers joined), every event the read workers read and decoded  *)
(* has been dequeued, put in a batch and flushed: nothing is left in a     *)
(* worker's hand, in eventCh or in a batch, and the number of events       *)
(* passed to WriteBatch equals the number read.  The store holds that many *)
(* events when no WriteBatch returned an error.                            *)
(***************************************************************************)
C1_NoLossDrain ==
    ShutdownComplete =>
        /\ FlushedFrom(flushLog) = TotalRead
        /\ eventCh = <<>>
        /\ \A p \in Procs : batch[p] = <<>>
        /\ \A r \in Readers : held[r] = NoEvent
        /\ (writeErrors = 0 => Len(StoredEvents) = TotalRead)

C1_Witness ==
    /\ pcMain = "Stopped"
    /\ writeErrors = 0
    /\ TotalRead >= 2
    /\ Len(StoredEvents) = TotalRead
    /\ Len(flushLog) >= 2

(***************************************************************************)
(* C3: a process worker that waits in its select loop with events in its   *)
(* batch has a flush deadline pending, so that the deadline alone flushes  *)
(* them: each firing of the deadline, also one that finds the batch empty, *)
(* rearms the timer.                                                       *)
(***************************************************************************)
C3_DeadlinePending ==
    \A p \in Procs :
        (pcProc[p] = "select" /\ batch[p] # <<>>) => flushTimer[p] = "armed"

C5_QueueBound ==
    /\ Len(eventCh) <= QueueCap
    /\ \A r \in Readers :
          /\ \A n \in 1..nRead[r] : Places(r, n) = 1
          /\ pcReader[r] = "enqueue" =>
                IsEvent(held[r], r, nRead[r])

C5_Witness ==
    \E r \in Readers :
        /\ pcReader[r] = "enqueue"
        /\ Len(eventCh) = QueueCap
        /\ \A p \in Procs : pcProc[p] # "done"

(***************************************************************************)
(* C7: after a stop signal, under fair scheduling, every read worker       *)
(* exits, every process worker exits with its batch flushed, and main      *)
(* reaches Stopped.                                                        *)
(***************************************************************************)
C7_ShutdownTerminates ==
    (stopper = "signalled") ~>
        /\ pcMain = "Stopped"
        /\ AllReadersDone
        /\ AllProcsDone
        /\ eventCh = <<>>
        /\ \A p \in Procs : batch[p] = <<>>

C7_Witness ==
    /\ stopper = "signalled"
    /\ \E r \in Readers : pcReader[r] = "enqueue" /\ Len(eventCh) = QueueCap

(***************************************************************************)
(* C8 as claimed: ringbuffer closed, read workers out, queue closed,       *)
(* process workers out with their batches flushed, store closed, HTTP      *)
(* server stopped, and only then the metrics file written.                 *)
(***************************************************************************)
ShutdownPrefixOrder ==
    /\ (\E r \in Readers : pcReader[r] = "done") => ringClosed
    /\ readersStopped => AllReadersDone
    /\ chClosed => readersStopped
    /\ (\E p \in Procs : pcProc[p] = "done") =>
          (chClosed /\ eventCh = <<>>)

C9_AllFedStored ==
    (/\ ShutdownComplete /\ writeErrors = 0 /\ malformed = 0
     /\ fed > QueueCap /\ TotalRead >= QueueCap)
        => Len(StoredEvents) = fed

(***************************************************************************)
(* C2: for both encoders, after any appends of single events and batches   *)
(* that all succeeded, then Close and Open, an unfiltered ReadEvents       *)
(* returns exactly the appended events, every field equal, in append       *)
(* order, whatever mix of single frames and batch frames events.pb holds.  *)
(***************************************************************************)
Unfiltered(filter) ==
    \/ filter.nil
    \/ /\ filter.Goroutine = NilPtr /\ filter.EventType = NilPtr
       /\ filter.StartTime = NilPtr /\ filter.EndTime = NilPtr
       /\ filter.Limit = 0 /\ filter.Offset = 0

C2_RoundTrip ==
    (lastCall.op = "ReadEvents" /\ Unfiltered(scanFilter) /\ ioErrors = 0) =>
        /\ pbScan = [events |-> appended, err |-> FALSE]
        /\ jlScan = [events |-> appended, err |-> FALSE]

C2_Witness ==
    /\ lastCall.op = "ReadEvents"
    /\ scanFilter = NoFilter
    /\ ioErrors = 0
    /\ Len(appended) >= 2
    /\ pbScan.events = appended
    /\ pb.file[1] # BatchMarker
    /\ \E i \in DOMAIN pb.file : pb.file[i] = BatchMarker

(***************************************************************************)
(* C6: for the same appended events and the same filter, ReadEvents of the *)
(* protobuf store and ReadEvents of the JSONL store return the same        *)
(* events.                                                                 *)
(***************************************************************************)
C6_SameScan ==
    (lastCall.op = "ReadEvents" /\ ioErrors = 0) => pbScan = jlScan

(***************************************************************************)
(* C10: WriteBatch is all-or-nothing for both encoders.  When it returns   *)
(* an error the event count is as before and none of the batch's events is *)
(* in the file; when it returns nil the count has grown by the batch, the  *)
(* file holds every appended event and the buffer is empty.                *)
(***************************************************************************)
RECURSIVE PbWellFormed(_)
\* the events of the complete frames at the start of events.pb
PbWellFormed(rest) ==
    IF rest = <<>> THEN <<>>
    ELSE IF rest[1] = BatchMarker
      THEN IF Len(rest) < 2 \/ Len(rest) < 2 + rest[2] THEN <<>>
           ELSE LET b == UnmarshalBatch(SubSeq(rest, 3, 2 + rest[2]))
                IN IF ~b.ok THEN <<>>
                   ELSE [i \in DOMAIN b.events |-> convertFromProto(b.events[i])]
                        \o PbWellFormed(Drop(rest, 2 + rest[2]))
      ELSE IF Len(rest) < 1 + rest[1] THEN <<>>
           ELSE LET e == UnmarshalEvent(SubSeq(rest, 2, 1 + rest[1]))
                IN IF ~e.ok THEN <<>>
                   ELSE <<convertFromProto(e.event)>>
                        \o PbWellFormed(Drop(rest, 1 + rest[1]))

RECURSIVE JlWellFormed(_)
\* the events of the complete lines at the start of events.jsonl
JlWellFormed(lines) ==
    IF lines = <<>> THEN <<>>
    ELSE LET e == UnmarshalJSON(Head(lines))
         IN IF ~e.ok THEN <<>>
            ELSE <<e.event>> \o JlWellFormed(Tail(lines))

IsPrefix(s, t) == Len(s) <= Len(t) /\ s = Take(t, Len(s))

AllOrNothing(old, new, onDisk, before, events) ==
    IF new.ret
      THEN new.count = old.count /\ IsPrefix(onDisk, before)
      ELSE /\ new.count = old.count + Len(events)
           /\ onDisk = before \o events
           /\ new.buf = <<>>

C10_BatchAllOrNothing ==
    [][StoreWriteBatch =>
         /\ AllOrNothing(pb, pb', PbWellFormed(pb'.file), appended,
                         lastCall'.events)
         /\ AllOrNothing(jl, jl', JlWellFormed(JlLines(jl'.file, <<>>)),
                         appended, lastCall'.events)]_vars

(***************************************************************************)
(* C11: when events.pb or events.jsonl ends in a truncated final record,   *)
(* an unfiltered ReadEvents of the reopened store returns an error         *)
(* together with the events of all the well-formed records before it.      *)
(***************************************************************************)
PbTruncated == countProtobufEvents(pb.file) < 0

JlTruncated ==
    Len(JlWellFormed(JlLines(jl.file, <<>>))) < Len(JlLines(jl.file, <<>>))

C11_TruncatedTail ==
    (lastCall.op = "ReadEvents" /\ scanFilter = NoFilter) =>
        /\ PbTruncated =>
              /\ pbScan.err
              /\ pbScan.events = PbWellFormed(pb.file)
        /\ JlTruncated =>
              /\ jlScan.err
              /\ jlScan.events = JlWellFormed(JlLines(jl.file, <<>>))

(***************************************************************************)
(* C12: after a clean shutdown in web mode metadata.json holds an end time *)
(* and an event_count equal to the number of events the store accepted     *)
(* during the run, for the protobuf store and for the JSONL store.         *)
(***************************************************************************)
C12_MetadataCount ==
    (pcMain = "Stopped" /\ writeErrors = 0) =>
        /\ metadata.pb = [EndTime |-> TRUE, EventCount |-> Len(StoredEvents)]
        /\ metadata.jl = [EndTime |-> TRUE, EventCount |-> Len(StoredEvents)]

(***************************************************************************)
(* C13: eventCount, the depth the sampler logs as EWP, is raised on        *)
(* enqueue and lowered on dequeue, and in every reachable state it lies    *)
(* between 0 and the capacity of eventCh.                                  *)
(***************************************************************************)
C13_DepthBounds ==
    /\ 0 <= eventCount
    /\ eventCount <= QueueCap

(***************************************************************************)
(* C14: for both encoders, ReadEvents with a filter without offset returns *)
(* the stored events that satisfy every predicate that is set (goroutine   *)
(* equal, event type equal, timestamp >= StartTime, timestamp <= EndTime), *)
(* in append order; with Limit > 0 it returns the first Limit of them, so  *)
(* at most Limit events, and exactly Limit when that many events match.    *)
(***************************************************************************)
Satisfies(e, filter) ==
    /\ filter.Goroutine # NilPtr => e.Goroutine = filter.Goroutine
    /\ filter.EventType # NilPtr => e.EventType = filter.EventType
    /\ filter.StartTime # NilPtr => e.Timestamp >= filter.StartTime
    /\ filter.EndTime # NilPtr => e.Timestamp <= filter.EndTime

Matching(filter) == SelectSeq(appended, LAMBDA e : Satisfies(e, filter))

Expected(filter) ==
    IF filter.Limit > 0
      THEN Take(Matching(filter), Min(filter.Limit, Len(Matching(filter))))
      ELSE Matching(filter)

C14_FilteredScan ==
    (lastCall.op = "ReadEvents" /\ ioErrors = 0 /\ scanFilter.Offset = 0) =>
        /\ pbScan = [events |-> Expected(scanFilter), err |-> FALSE]
        /\ jlScan = [events |-> Expected(scanFilter), err |-> FALSE]
        /\ scanFilter.Limit > 0 =>
              Len(pbScan.events) = Min(scanFilter.Limit,
                                       Len(Matching(scanFilter)))

C14_Witness ==
    /\ lastCall.op = "ReadEvents"
    /\ ioErrors = 0
    /\ scanFilter.Offset = 0
    /\ scanFilter.Limit = 1
    /\ scanFilter.Goroutine = 2
    /\ Len(appended) = 2
    /\ appended[1].Goroutine # 2
    /\ pbScan.events = <<appended[2]>>
    /\ jlScan.events = <<appended[2]>>

(***************************************************************************)
(* C15: in web mode a step of a process worker that flushes a non-empty    *)
(* batch - the deadline, the closed channel, the end of the drain, or a    *)
(* dequeue that fills the batch - makes exactly one WriteBatch call and    *)
(* hands exactly one batch frame to the hub, both with the events of the   *)
(* batch in the order the worker received them, and leaves the worker's    *)
(* batch empty.  No other step writes to the store or to the hub.          *)
(***************************************************************************)
FlushedOnce(p, b) ==
    /\ Len(flushLog') = Len(flushLog) + 1
    /\ Take(flushLog', Len(flushLog)) = flushLog
    /\ flushLog'[Len(flushLog')].events = b
    /\ hubFrames' = Append(hubFrames, [type |-> "batch", events |-> b])
    /\ batch'[p] = <<>>

NothingFlushed == UNCHANGED <<flushLog, hubFrames>>

\* a step that touches what worker p owns or the channel; every case of the
\* worker's loop is such a step
WorkerStep(p) ==
    \/ pcProc'[p] # pcProc[p]
    \/ batch'[p] # batch[p]
    \/ flushTimer'[p] # flushTimer[p]
    \/ eventCh' # eventCh

C15_FlushOnce ==
    [][/\ \A p \in Procs :
            WorkerStep(p) =>
              /\ (PWTimer(p) \/ PWChannelClosed(p) \/ PWDrainEnd(p)) =>
                    IF batch[p] # <<>> THEN FlushedOnce(p, batch[p])
                                      ELSE NothingFlushed
              /\ (PWDequeue(p) \/ PWDrainEvent(p)) =>
                    IF Len(batch[p]) + 1 >= BatchSize
                      THEN FlushedOnce(p, Append(batch[p], Head(eventCh)))
                      ELSE /\ NothingFlushed
                           /\ batch'[p] = Append(batch[p], Head(eventCh))
       /\ ~NothingFlushed => \E p \in Procs : ProcStep(p)]_vars

C15_Witness ==
    /\ \E k \in DOMAIN hubFrames :
          /\ Len(hubFrames[k].events) = BatchSize
          /\ hubFrames[k].type = "batch"
          /\ hubFrames[k].events = flushLog[k].events
    /\ Len(hubFrames) = Len(flushLog)
    /\ \A p \in Procs : batch[p] = <<>>

(***************************************************************************)
(* C16: CreateSession fails when the directory of the session id exists:   *)
(* a second create with the same id returns an error and no store.         *)
(***************************************************************************)
C16_AlreadyExists ==
    [][\A id \in SessionIds : \A format \in FormatNames :
          (MgrCreateSession(id, format) /\ sessionDirs[id].exists) =>
              /\ mgrCall'.err # "nil"
              /\ mgrStores' = mgrStores]_vars

(***************************************************************************)
(* C17: CreateSession returns a ProtobufStore for each of the names        *)
(* binary, framed, protobuf, pb and proto, a JSONLStore for each of jsonl, *)
(* json and lines, and an error for every other name (a name that differs  *)
(* from one of these in case only is left open).                           *)
(***************************************************************************)
FramedNames == {"binary", "framed", "protobuf", "pb", "proto"}

TextualNames == {"jsonl", "json", "lines"}

C17_FormatNames ==
    [][\A id \in SessionIds : \A format \in FormatNames :
          MgrCreateSession(id, format) =>
              IF format \in FramedNames
                THEN mgrCall'.err = "nil" /\ mgrCall'.kind = "protobuf"
              ELSE IF format \in TextualNames
                THEN mgrCall'.err = "nil" /\ mgrCall'.kind = "jsonl"
              ELSE IF ToLower(format) \in FramedNames \cup TextualNames
                THEN TRUE
              ELSE mgrCall'.err # "nil"]_vars

(***************************************************************************)
(* C18: after any sequence of CreateSession, OpenSession and DeleteSession *)
(* calls, failed ones included, every session directory holds              *)
(* metadata.json and exactly one of events.pb and events.jsonl.            *)
(***************************************************************************)
C18_DirectoryLayout ==
    \A id \in SessionIds :
        sessionDirs[id].exists =>
            /\ "metadata.json" \in sessionDirs[id].names
            /\ Cardinality(sessionDirs[id].names
                           \cap {"events.pb", "events.jsonl"}) = 1

(***************************************************************************)
(* C19 as claimed: OpenSession on a session created with one encoder       *)
(* returns a store of that encoder whose unfiltered ReadEvents returns     *)
(* every event appended to the session; events.pb is probed before         *)
(* events.jsonl, and the call fails when the directory holds neither.      *)
(***************************************************************************)
ReaderScan(kind, dir) ==
    IF kind = "protobuf" THEN PbReadEvents(dir.pb, NoFilter)
                         ELSE JlReadEvents(dir.jl, NoFilter)

EventFiles(dir) == dir.names \cap {"events.pb", "events.jsonl"}

LiveWriter(id) ==
    \E i \in DOMAIN mgrStores :
        mgrStores[i].id = id /\ ~mgrStores[i].unlinked

C20_DeleteInUse ==
    [][\A id \in SessionIds :
          MgrDeleteSession(id) =>
              IF LiveWriter(id)
                THEN /\ mgrCall'.err # "nil"
                     /\ sessionDirs'[id] = sessionDirs[id]
                ELSE /\ mgrCall'.err = "nil"
                     /\ sessionDirs'[id] = NoDir]_vars

(***************************************************************************)
(* C21: OpenProtobufStore on an existing events.pb sets the event count to *)
(* the number of single-event frames plus the number of events inside all  *)
(* the batch frames, which is the number of events appended by WriteEvent  *)
(* and WriteBatch before the store was closed.                             *)
(***************************************************************************)
RECURSIVE SingleFrames(_)
\* the number of single-event frames of a well-formed events.pb
SingleFrames(rest) ==
    IF rest = <<>> THEN 0
    ELSE IF rest[1] = BatchMarker
           THEN SingleFrames(Drop(rest, 2 + rest[2]))
           ELSE 1 + SingleFrames(Drop(rest, 1 + rest[1]))

RECURSIVE BatchEntries(_)
\* the number of events inside the batch frames of a well-formed events.pb
BatchEntries(rest) ==
    IF rest = <<>> THEN 0
    ELSE IF rest[1] = BatchMarker
           THEN Len(UnmarshalBatch(SubSeq(rest, 3, 2 + rest[2])).events)
                + BatchEntries(Drop(rest, 2 + rest[2]))
           ELSE BatchEntries(Drop(rest, 1 + rest[1]))

C21_CountOnOpen ==
    (lastCall.op = "Open" /\ ioErrors = 0) =>
        /\ ~pb.ret
        /\ pb.count = SingleFrames(pb.file) + BatchEntries(pb.file)
        /\ pb.count = Len(appended)

C21_Witness ==
    /\ lastCall.op = "Open"
    /\ ioErrors = 0
    /\ pb.count = MaxStored
    /\ SingleFrames(pb.file) >= 1
    /\ BatchEntries(pb.file) >= 1
    /\ pb.file[1] # BatchMarker

(***************************************************************************)
(* The metrics collector.                                                  *)
(***************************************************************************)

\* the members saveMetrics writes: the series and the per-kind counts
SeriesMembers ==
    {"written", "rps", "pps", "ewp", "lat", "prc", "bps", "bfl", "qwl", "ts",
     "event_counts"}

\* C22: when a batch append to the store has failed, the metrics file
\* written at shutdown reports the lost batch: it holds a member, beside
\* the sampled series and the per-kind counts, that counts the failed
\* batches.
C22_LostBatchReported ==
    (metricsFile.written /\ failedFlushes > 0) =>
        DOMAIN metricsFile \ SeriesMembers # {}

\* the mean of an interval, as the sampler would report it
IntervalMeans(g) ==
    [ lat |-> Mean(g.probeSum, g.probeCount),
      prc |-> Mean(g.processingSum, g.processingCount),
      bfl |-> Mean(g.flushSum, g.flushCount),
      qwl |-> Mean(g.waitSum, g.waitCount) ]

\* C23: every sample covers the events since the previous sample only: the
\* read and processed counts and the four means of the last sample are
\* those of the last interval.
C23_SampleCoversInterval ==
    LET n == Len(metricSeries.rps)
    IN n > 0 =>
         /\ metricSeries.rps[n] = lastInterval.reads
         /\ metricSeries.pps[n] = lastInterval.procs
         /\ metricSeries.lat[n] = IntervalMeans(lastInterval).lat
         /\ metricSeries.prc[n] = IntervalMeans(lastInterval).prc
         /\ metricSeries.bfl[n] = IntervalMeans(lastInterval).bfl
         /\ metricSeries.qwl[n] = IntervalMeans(lastInterval).qwl

\* C24: the body of every answer to GET /api/metrics is one published
\* sample (or the zero snapshot the server starts with), never a mix of the
\* fields of two.
C24_OneSample ==
    response.status = 200 => response.body \in published

\* an answer that carries a sample which was replaced before it was encoded
C24_Witness ==
    /\ response.status = 200
    /\ response.body # ZeroMetrics
    /\ response.body # heap[srvMetrics]
    /\ response.body \in published

(***************************************************************************)
(* A reader beside the live writer.                                        *)
(***************************************************************************)

\* C25: a reader that opens and scans events.pb through its own handle
\* while the writer appends, with no write failing, succeeds and gets a
\* prefix of the events appended, made of whole batches.
C25_LiveReaderPrefix ==
    (liveScan.done /\ ioErrors = 0) =>
        /\ liveScan.status = 200
        /\ IsPrefix(liveScan.events, appended)

(***************************************************************************)
(* The event query of the HTTP surface.                                    *)
(***************************************************************************)

\* a query with a value that is given and is no number
Unparsable(q) == \E k \in QueryKeys : q[k] # "" /\ ParseNumber(q[k]) = NilPtr

\* C26: a GET of the events of a session with a query value that cannot be
\* parsed is answered with status 400, and the sessions are left as they
\* were.
C26_BadQueryRejected ==
    [][\A id \in SessionIds : \A q \in Queries :
          (ApiGetEvents(id, q) /\ Unparsable(q)) =>
              /\ mgrCall'.err = "status 400"
              /\ sessionDirs' = sessionDirs]_vars

(***************************************************************************)
(* The broadcast hub.                                                      *)
(***************************************************************************)

\* s is strictly increasing
Increasing(s) == \A i \in 1..(Len(s) - 1) : s[i] < s[i + 1]

\* C27: what a subscriber has received is a subsequence of the frames
\* dispatched, in dispatch order: every frame received was dispatched, and
\* no frame comes twice or before an earlier one.
C27_SubsequenceInOrder ==
    \A s \in Subscribers :
        /\ Increasing(subs[s].received)
        /\ \A i \in DOMAIN subs[s].received :
              subs[s].received[i] \in 1..Len(dispatched)

\* a subscriber that received frames around one that was dropped for it
C27_Witness ==
    \E s \in Subscribers :
        LET r == subs[s].received
        IN /\ Len(r) >= 2
           /\ \E n \in subs[s].missed : r[1] < n /\ n < r[Len(r)]

RECURSIVE Ascending(_, _, _)
\* the numbers lo..hi that are not in skip, in order
Ascending(lo, hi, skip) ==
    IF lo > hi THEN <<>>
    ELSE IF lo \in skip THEN Ascending(lo + 1, hi, skip)
    ELSE <<lo>> \o Ascending(lo + 1, hi, skip)

\* the frames a subscriber has in its sink and in its queue
Seen(s) == subs[s].received \o subs[s].queue

\* the frames dropped for s at the end of the dispatch order
RECURSIVE TailMisses(_, _)
TailMisses(s, n) ==
    IF n > subs[s].joinedAt /\ n \in subs[s].missed
      THEN 1 + TailMisses(s, n - 1)
      ELSE 0

WellFormedPair(p) ==
    /\ p.colons = 1
    /\ p.name \in DOMAIN eventNameToType
    /\ p.rate \in DOMAIN FloatLiterals
    /\ FloatLiterals[p.rate] >= 0
    /\ FloatLiterals[p.rate] <= 1000

\* the kinds the pairs list
ListedKinds == { eventNameToType[samplingPairs[i].name] :
                   i \in { j \in DOMAIN samplingPairs :
                             samplingPairs[j].name \in DOMAIN eventNameToType } }

\* the rate, in thousandths, of the last pair that lists the kind
LastRate(kind) ==
    LET last == CHOOSE i \in DOMAIN samplingPairs :
                   /\ samplingPairs[i].name \in DOMAIN eventNameToType
                   /\ eventNameToType[samplingPairs[i].name] = kind
                   /\ \A j \in DOMAIN samplingPairs :
                         (j > i /\ samplingPairs[j].name
                                     \in DOMAIN eventNameToType)
                           => eventNameToType[samplingPairs[j].name] # kind
    IN FloatLiterals[samplingPairs[last].rate]

\* C29: for a flag whose pairs are all well formed, with or without spaces
\* around the names and the rates, parseSamplingRates returns no error and
\* a map of exactly the kinds listed, each with the percent nearest to the
\* rate of the last pair that lists it; the empty flag gives the empty map.
C29_RatesOfWellFormed ==
    (rateResult.err # "not called"
       /\ \A i \in DOMAIN samplingPairs : WellFormedPair(samplingPairs[i])) =>
        /\ rateResult.err = "nil"
        /\ ~rateResult.nil
        /\ DOMAIN rateResult.rates = ListedKinds
        /\ \A kind \in ListedKinds :
              LET d == 10 * rateResult.rates[kind] - LastRate(kind)
              IN -5 <= d /\ d <= 5

\* a padded pair, a kind listed twice with the second rate kept, and a
\* rate that is no whole percent
C29_Witness ==
    /\ rateResult.err = "nil"
    /\ Len(samplingPairs) = 2
    /\ samplingPairs[1].name = "makemap"
    /\ samplingPairs[2].name = "makemap"
    /\ samplingPairs[1].rate = "0.5"
    /\ samplingPairs[2].rate = "0.018"
    /\ samplingPairs[2].padded
    /\ rateResult.rates = [t \in {2} |-> 2]

\* C30: when a pair of the flag has no colon or more than one, an unknown
\* or empty name, a rate that is missing or is no number, or a rate below
\* 0 or above 1, parseSamplingRates returns an error and no map, whatever
\* the other pairs are.
C30_ErrorOnBadPair ==
    (rateResult.err # "not called"
       /\ \E i \in DOMAIN samplingPairs : ~WellFormedPair(samplingPairs[i])) =>
        /\ rateResult.err # "nil"
        /\ rateResult.nil

(***************************************************************************)
(* The sampling of the probes.                                             *)
(***************************************************************************)
\* the events of the kinds K among the events es, in order
OfKinds(es, K) == SelectSeq(es, LAMBDA e : e.type \in K)

\* the rates with the rate r configured for the kind t
WithRate(rates, t, r) ==
    [x \in DOMAIN rates \cup {t} |-> IF x = t THEN r ELSE rates[x]]

\* the ringbuffer the same firings fill under the map rates
Captured(rates) == Replay(EmptyMaps, rates, firings).out

(***************************************************************************)
(* C31: when the -sample option lists rates for some kinds only, no event  *)
(* of a kind that is not listed is submitted to the ringbuffer.            *)
(***************************************************************************)
C31_UnlistedNotCaptured ==
    DOMAIN sampling_rates # {} =>
        \A i \in DOMAIN ringbuf : ringbuf[i].type \in DOMAIN sampling_rates

(***************************************************************************)
(* C32: the kinds are sampled independently.  For the same firings and the *)
(* same draws, the NewGoroutine and GoExit events submitted are the same   *)
(* under every rate configured for casgstatus; and a kind configured at    *)
(* 100 percent has all the events it has with no sampling, a kind          *)
(* configured at 0 percent none.                                           *)
(***************************************************************************)
C32_SampledIndependently ==
    /\ \A r \in RatePercents :
          OfKinds(Captured(WithRate(sampling_rates,
                                    GO_RUNTIME_EVENT_TYPE_CAS_G_STATUS, r)),
                  {GO_RUNTIME_EVENT_TYPE_NEWGOROUTINE,
                   GO_RUNTIME_EVENT_TYPE_GOEXIT})
            = OfKinds(ringbuf, {GO_RUNTIME_EVENT_TYPE_NEWGOROUTINE,
                                GO_RUNTIME_EVENT_TYPE_GOEXIT})
    /\ \A t \in DOMAIN sampling_rates :
          /\ sampling_rates[t] = 100 =>
                OfKinds(ringbuf, {t})
                  = OfKinds(Captured([x \in {} |-> 0]), {t})
          /\ sampling_rates[t] = 0 => OfKinds(ringbuf, {t}) = <<>>

(***************************************************************************)
(* C33: for both encoders, once Close has returned nil after appends that  *)
(* all succeeded, every appended event is on the disk: the part of the     *)
(* event file that survives a loss of power decodes to the appended        *)
(* events.                                                                 *)
(***************************************************************************)
C33_DurableOnClose ==
    (lastCall.op = "Close" /\ ioErrors = 0) =>
        /\ PbReadEvents(Take(pb.file, durable.pb), NoFilter)
             = [events |-> appended, err |-> FALSE]
        /\ JlReadEvents(Take(jl.file, durable.jl), NoFilter)
             = [events |-> appended, err |-> FALSE]

(***************************************************************************)
(* C34: eventCh is closed only after every read worker has returned: no    *)
(* read worker is ever about to send on the closed channel, and a process  *)
(* worker has seen the end of the channel only when the read workers are   *)
(* gone and every event sent on the channel has been received.             *)
(***************************************************************************)
C34_ClosedAfterReaders ==
    /\ chClosed => AllReadersDone
    /\ \A r \in Readers : ~(chClosed /\ pcReader[r] = "enqueue")
    /\ \A p \in Procs :
          pcProc[p] = "done" =>
              /\ chClosed
              /\ eventCh = <<>>
              /\ \A r \in Readers : held[r] = NoEvent

C34_Witness ==
    /\ chClosed
    /\ \E p \in Procs : pcProc[p] = "done"
    /\ TotalRead > 0
    /\ flushLog # <<>>

(***************************************************************************)
(* C35: a process worker flushes as soon as its batch holds BatchSize      *)
(* events, in the select loop and in the drain loop alike: every batch     *)
(* passed to WriteBatch and to BroadcastBatch holds between 1 and          *)
(* BatchSize events, and between two iterations a worker holds fewer than  *)
(* BatchSize events.                                                       *)
(***************************************************************************)
C35_BatchWithinSize ==
    /\ \A k \in DOMAIN flushLog :
          Len(flushLog[k].events) \in 1..BatchSize
    /\ \A k \in DOMAIN hubFrames :
          Len(hubFrames[k].events) \in 1..BatchSize
    /\ \A p \in Procs : Len(batch[p]) < BatchSize

C35_Witness ==
    /\ \E k \in DOMAIN flushLog : Len(flushLog[k].events) = BatchSize
    /\ \E k \in DOMAIN hubFrames : Len(hubFrames[k].events) = BatchSize
    /\ \E p \in Procs : pcProc[p] = "drain"
    /\ \E p \in Procs : pcProc[p] = "select"

(***************************************************************************)
(* C36: with several process workers calling WriteBatch on the same store, *)
(* whenever no call is in progress the event file holds the batches of the *)
(* calls that returned nil, each whole and in one piece, in the order of   *)
(* the calls, and the store's event count is the sum of their sizes.       *)
(***************************************************************************)
WbStored ==
    IF wbKind = "pb" THEN PbReadEvents(wbW.file, NoFilter)
    ELSE JlReadEvents(wbW.file, NoFilter)

C36_BatchesContiguous ==
    (wbKind # "none" /\ \A p \in Procs : wbCall[p].state # "run") =>
        /\ WbStored = [events |-> StoredFrom(wbLog), err |-> FALSE]
        /\ wbCount = Len(StoredFrom(wbLog))

(***************************************************************************)
(* C37: paging partitions a filtered scan.  For both encoders, for every   *)
(* filter with predicates only and every page size L > 0, the scans with   *)
(* limit L and offset 0, L, 2L, ... put one after the other are the scan   *)
(* with the same predicates and no offset and no limit.                    *)
(***************************************************************************)
RECURSIVE PbPages(_, _, _, _)
\* the pages of events.pb from page k on, up to the first empty page
PbPages(file, filter, L, k) ==
    LET page == PbReadEvents(file, [filter EXCEPT !.Limit = L,
                                                  !.Offset = k * L]).events
    IN  IF page = <<>> \/ k * L > MaxStored THEN <<>>
        ELSE page \o PbPages(file, filter, L, k + 1)

RECURSIVE JlPages(_, _, _, _)
\* the pages of events.jsonl from page k on, up to the first empty page
JlPages(file, filter, L, k) ==
    LET page == JlReadEvents(file, [filter EXCEPT !.Limit = L,
                                                  !.Offset = k * L]).events
    IN  IF page = <<>> \/ k * L > MaxStored THEN <<>>
        ELSE page \o JlPages(file, filter, L, k + 1)

PredicateFilters == {f \in Filters : ~f.nil /\ f.Limit = 0 /\ f.Offset = 0}

C37_PagesPartition ==
    (lastCall.op = "ReadEvents" /\ ioErrors = 0) =>
        \A f \in PredicateFilters : \A L \in 1..(MaxLimit + 1) :
            /\ PbPages(pb.file, f, L, 0) = PbReadEvents(pb.file, f).events
            /\ JlPages(jl.file, f, L, 0) = JlReadEvents(jl.file, f).events

(***************************************************************************)
(* C38: replay agrees with the live view.  Once shutdown has completed,    *)
(* every event a process worker handed to the hub is among the events the  *)
(* session store holds.                                                    *)
(***************************************************************************)
C38_ReplayAgreesWithLive ==
    ShutdownComplete =>
        \A k \in DOMAIN hubFrames : \A i \in DOMAIN hubFrames[k].events :
            \E j \in DOMAIN StoredEvents :
                StoredEvents[j] = hubFrames[k].events[i]

(***************************************************************************)
(* C39: the WebSocket client has at most one connection that is connecting *)
(* or open; after disconnect() and until connect() is called again by the  *)
(* App it has none; and no event of a frame is passed to the registered    *)
(* callback more than once.                                                *)
(***************************************************************************)
C39_OneConnection ==
    /\ Cardinality(Live) <= 1
    /\ ~mounted => Live = {}
    /\ deliveries <= 1

====
